---- MODULE Spec2Model ----
(***************************************************************************)
(* Query orchestrator of the document question-answering service           *)
(* (EnhancedLLMService over EnhancedVectorStore).                          *)
(*                                                                         *)
(* Texts are sequences of one-character strings.  Scores, thresholds and   *)
(* confidences are integers in thousandths (0.15 is 150).  Time is in      *)
(* whole seconds.  An operator that models a Python function which can     *)
(* raise returns the value Raise in that case.                             *)
(***************************************************************************)
EXTENDS Integers, Sequences, FiniteSets, TLC

\* ------------------------------------------------------------------------
\* Bounds of the exploration
\* ------------------------------------------------------------------------
MaxCalls == 1

PoolCalls == 4

CacheCalls == 2

MaxTicks == 2

MaxFragments == 3

MaxApplications == 2

MaxDedupCalls == 4

MaxTextLen == 6

MaxRetrieved == 8

MaxUploads == 3

MaxRequests == 4

MaxAdvances == 3

\* ------------------------------------------------------------------------
\* Program constants
\* ------------------------------------------------------------------------
max_workers == 3

DefaultTimeout == 60

TOP_K == 7

FullConfidenceDocs == 7

BaseThreshold == 150

max_retries == 2

RetryPause == 1

DegradedSourceLimit == 3

DegradedConfidence == 500

SourcePreviewLen == 300

max_context_chars == 3000

MinTruncatedChars == 200

CACHE_TTL_SECONDS == 3600

ENABLE_QUERY_CACHE == TRUE

\* minute_ago = current_time - 60 (main.py)
RateWindow == 60

OLLAMA_MODEL == "llama2"

\* The outcome of a call that can raise: Ok(v), or Raise (test .raised)
Raise == [raised |-> TRUE]

Ok(v) == [raised |-> FALSE, val |-> v]

\* Python None, for an Optional value: test .none
None == [none |-> TRUE]

Some(v) == [none |-> FALSE, val |-> v]

\* ------------------------------------------------------------------------
\* Text helpers (str.lower, str.strip, str.split, substring test)
\* ------------------------------------------------------------------------
Min(a, b) == IF a <= b THEN a ELSE b

Max(a, b) == IF a >= b THEN a ELSE b

LowerCh(ch) ==
    CASE ch = "A" -> "a"
      [] ch = "B" -> "b"
      [] ch = "C" -> "c"
      [] ch = "D" -> "d"
      [] ch = "E" -> "e"
      [] ch = "F" -> "f"
      [] ch = "G" -> "g"
      [] ch = "H" -> "h"
      [] ch = "I" -> "i"
      [] ch = "J" -> "j"
      [] ch = "K" -> "k"
      [] ch = "L" -> "l"
      [] ch = "M" -> "m"
      [] ch = "N" -> "n"
      [] ch = "O" -> "o"
      [] ch = "P" -> "p"
      [] ch = "Q" -> "q"
      [] ch = "R" -> "r"
      [] ch = "S" -> "s"
      [] ch = "T" -> "t"
      [] ch = "U" -> "u"
      [] ch = "V" -> "v"
      [] ch = "W" -> "w"
      [] ch = "X" -> "x"
      [] ch = "Y" -> "y"
      [] ch = "Z" -> "z"
      [] OTHER -> ch

Lower(s) == [i \in DOMAIN s |-> LowerCh(s[i])]

\* The whitespace of str.strip, str.split and the regular expression \s
IsSpace(ch) == ch \in {" ", "\t", "\n"}

\* The positions of the characters of s that are not whitespace
NonSpace(s) == {i \in DOMAIN s : ~IsSpace(s[i])}

LStrip(s) ==
    IF NonSpace(s) = {} THEN <<>>
    ELSE SubSeq(s, CHOOSE i \in NonSpace(s) : \A j \in NonSpace(s) : i <= j, Len(s))

RStrip(s) ==
    IF NonSpace(s) = {} THEN <<>>
    ELSE SubSeq(s, 1, CHOOSE i \in NonSpace(s) : \A j \in NonSpace(s) : i >= j)

Strip(s) == RStrip(LStrip(s))

\* str.split(): the maximal runs of non-whitespace characters, in order
Split(s) ==
    LET starts == {i \in NonSpace(s) : i = 1 \/ IsSpace(s[i - 1])}
        ends   == {i \in NonSpace(s) : i = Len(s) \/ IsSpace(s[i + 1])}
        nth(S, n) == CHOOSE i \in S : Cardinality({j \in S : j <= i}) = n
    IN  [n \in 1..Cardinality(starts) |-> SubSeq(s, nth(starts, n), nth(ends, n))]

Words(s) == {Split(s)[i] : i \in DOMAIN Split(s)}

\* term in text
Contains(text, term) ==
    \E i \in 0..(Len(text) - Len(term)) : SubSeq(text, i + 1, i + Len(term)) = term

\* ------------------------------------------------------------------------
\* Indexed chunks: a chunk is named; its text is known by its length, its
\* word set and its source file.
\* ------------------------------------------------------------------------
DocIds == {"d1", "d2", "d3", "d4", "d5", "d6", "d7"}

DocLen(d) ==
    CASE d = "d1" -> 350
      [] d = "d2" -> 80
      [] d = "d3" -> 120
      [] d = "d5" -> 2600
      [] d = "d6" -> 2000
      [] d = "d7" -> 150
      [] OTHER -> 40

DocWords(d) ==
    CASE d = "d1" -> {<<"a">>, <<"v", "s">>}
      [] d = "d2" -> {<<"a">>}
      [] OTHER -> {<<"b">>}

\* doc.metadata as stored with the chunk
DocMetadata(d) ==
    CASE d \in {"d1", "d2"} -> [source_file |-> "f1"]
      [] d = "d3" -> [filename |-> "f2"]
      [] OTHER -> [page |-> "1"]

\* The lengths of the pieces of d.split('. '): d5 is three sentences, the
\* other chunk texts hold no sentence boundary ". ".
DocSentences(d) ==
    CASE d = "d5" -> <<1000, 1000, 596>>
      [] OTHER -> <<DocLen(d)>>

\* page_content of chunk d: the first n characters of d, then `tail'.
PageContent(d) == [doc |-> d, len |-> DocLen(d), tail |-> ""]

\* ------------------------------------------------------------------------
\* EnhancedVectorStore (vector_store_fixed.py)
\* ------------------------------------------------------------------------
\* The abbreviations of _preprocess_query and their expansions, in the order
\* of the dict (lines 148-152)
NHD == <<"N", "H", "D">>

USGS == <<"U", "S", "G", "S">>

GIS == <<"G", "I", "S">>

NationalHydrographyDataset ==
    <<"N", "a", "t", "i", "o", "n", "a", "l", " ", "H", "y", "d", "r",
      "o", "g", "r", "a", "p", "h", "y", " ", "D", "a", "t", "a", "s",
      "e", "t">>

UnitedStatesGeologicalSurvey ==
    <<"U", "n", "i", "t", "e", "d", " ", "S", "t", "a", "t", "e", "s",
      " ", "G", "e", "o", "l", "o", "g", "i", "c", "a", "l", " ", "S",
      "u", "r", "v", "e", "y">>

GeographicInformationSystem ==
    <<"G", "e", "o", "g", "r", "a", "p", "h", "i", "c", " ", "I", "n",
      "f", "o", "r", "m", "a", "t", "i", "o", "n", " ", "S", "y", "s",
      "t", "e", "m">>

abbreviations ==
    << [abbrev |-> NHD,  expansion |-> NationalHydrographyDataset],
       [abbrev |-> USGS, expansion |-> UnitedStatesGeologicalSurvey],
       [abbrev |-> GIS,  expansion |-> GeographicInformationSystem] >>

\* re.sub(r'\s+', ' ', text): every run of whitespace becomes one space
RECURSIVE CollapseWhitespace(_)
CollapseWhitespace(text) ==
    IF text = <<>> THEN <<>>
    ELSE IF IsSpace(Head(text))
         THEN <<" ">> \o CollapseWhitespace(LStrip(text))
         ELSE <<Head(text)>> \o CollapseWhitespace(Tail(text))

\* An expansion loop that appends without looking for the expansion
RECURSIVE ExpandAlways(_, _)
ExpandAlways(query, i) ==
    IF i > Len(abbreviations) THEN query
    ELSE ExpandAlways(
            IF Contains(query, abbreviations[i].abbrev)
            THEN query \o <<" ">> \o abbreviations[i].expansion
            ELSE query,
            i + 1)

\* for abbrev, expansion in abbreviations.items() (lines 154-156), from the
\* i-th entry on
RECURSIVE ExpandAbbreviations(_, _)
ExpandAbbreviations(query, i) ==
    IF i > Len(abbreviations) THEN query
    ELSE ExpandAbbreviations(
            IF /\ Contains(query, abbreviations[i].abbrev)
               /\ ~Contains(query, abbreviations[i].expansion)
            THEN query \o <<" ">> \o abbreviations[i].expansion
            ELSE query,
            i + 1)

_preprocess_query(query) ==
    ExpandAbbreviations(CollapseWhitespace(Strip(query)), 1)

\* The comparison terms tested against query.lower()
ComparisonTerms ==
    { <<"d","i","f","f","e","r","e","n","c","e">>, <<"c","o","m","p","a","r","e">>,
      <<"v","e","r","s","u","s">>, <<"v","s">> }

\* A threshold rule that tests the short-query rule first
AdaptiveThresholdShortFirst(query, base_threshold) ==
    IF Len(Split(query)) <= 3
    THEN Max(50, base_threshold - 100)
    ELSE IF \E term \in ComparisonTerms : Contains(Lower(query), term)
         THEN Max(100, base_threshold - 50)
         ELSE base_threshold

\* A threshold rule whose comparison branch forgets the reduction
AdaptiveThresholdNoReduction(query, base_threshold) ==
    IF \E term \in ComparisonTerms : Contains(Lower(query), term)
    THEN Max(100, base_threshold)
    ELSE IF Len(Split(query)) <= 3
         THEN Max(50, base_threshold - 100)
         ELSE base_threshold

_get_adaptive_threshold(query, base_threshold) ==
    IF \E term \in ComparisonTerms : Contains(Lower(query), term)
    THEN Max(100, base_threshold - 50)
    ELSE IF Len(Split(query)) <= 3
         THEN Max(50, base_threshold - 100)
         ELSE base_threshold

\* similarity_score = 1 - score if score <= 1 else 1 / (1 + score)
Similarity(score) ==
    IF score <= 1000 THEN 1000 - score ELSE (1000 * 1000) \div (1000 + score)

\* A fused score that is not clamped
RelevanceUnclamped(query, d, similarity_score) ==
    LET query_words == Words(Lower(query))
    IN  IF query_words = {} THEN Raise
        ELSE Ok(similarity_score
                + (100 * Cardinality(query_words \cap DocWords(d)))
                      \div Cardinality(query_words)
                + (IF DocLen(d) > 100 THEN 50 ELSE 0))

\* Raises ZeroDivisionError when the query has no word.
_calculate_enhanced_relevance(query, d, similarity_score) ==
    LET query_words == Words(Lower(query))
    IN  IF query_words = {} THEN Raise
        ELSE LET overlap100 == (100 * Cardinality(query_words \cap DocWords(d)))
                                   \div Cardinality(query_words)
                 boost      == IF DocLen(d) > 100 THEN 50 ELSE 0
             IN  Ok(Min(1000, similarity_score + overlap100 + boost))

\* The loop over the scored candidates (lines 97-120): the list of result
\* dicts in candidate order, or Raise.
RECURSIVE RankLoop(_, _, _, _)
RankLoop(query, threshold, results, acc) ==
    IF results = <<>> THEN Ok(acc)
    ELSE LET doc   == Head(results).doc
             sim   == Similarity(Head(results).score)
             adj   == _get_adaptive_threshold(query, threshold)
         IN  IF sim >= adj
             THEN LET rel == _calculate_enhanced_relevance(query, doc, sim)
                  IN  IF rel.raised THEN Raise
                      ELSE RankLoop(query, threshold, Tail(results),
                               Append(acc,
                                 [content  |-> PageContent(doc),
                                  metadata |-> [relevance_score |-> rel.val,
                                                search_type |-> "optimized_semantic"]
                                               @@ DocMetadata(doc)]))
             ELSE RankLoop(query, threshold, Tail(results), acc)

\* list.sort(key=relevance_score, reverse=True): stable, descending
RECURSIVE InsertDesc(_, _)
InsertDesc(sorted, x) ==
    IF sorted = <<>> THEN <<x>>
    ELSE IF Head(sorted).metadata.relevance_score >= x.metadata.relevance_score
         THEN <<Head(sorted)>> \o InsertDesc(Tail(sorted), x)
         ELSE <<x>> \o sorted

\* A result list that is left in candidate order
SortMissing(docs) == docs

RECURSIVE SortDesc(_)
SortDesc(docs) ==
    IF docs = <<>> THEN <<>>
    ELSE InsertDesc(SortDesc(SubSeq(docs, 1, Len(docs) - 1)), docs[Len(docs)])

FirstN(s, n) == SubSeq(s, 1, Min(n, Len(s)))

\* get_collection_stats never raises: a failure of collection.count() is
\* caught and a zero count reported.  idx.count is Ok of the count, or Raise.
get_collection_stats(idx) ==
    IF idx.count.raised THEN Ok([total_documents |-> 0])
    ELSE Ok([total_documents |-> idx.count.val])

\* The ranked path (the try block, lines 77-127).  idx is what the index
\* does for this query: idx.scored is the answer of
\* similarity_search_with_score (Ok of a list of [doc, score], or Raise).
\* vectorstore.similarity_search_with_score(processed_query, k): the k nearest
\* of the scored chunks the index has for the query, or Raise
similarity_search_with_score(processed_query, k, idx) ==
    IF idx.scored.raised THEN Raise ELSE Ok(FirstN(idx.scored.val, k))

RankedSearch(query, k, threshold, idx) ==
    LET stats           == get_collection_stats(idx)
        processed_query == _preprocess_query(query)
        results         == similarity_search_with_score(processed_query,
                                                        Min(k * 2, 20), idx)
    IN  IF stats.raised \/ results.raised THEN Raise
        ELSE LET documents == RankLoop(query, threshold, results.val, <<>>)
             IN  IF documents.raised THEN Raise
                 ELSE Ok(FirstN(SortDesc(documents.val), k))

\* The fallback (lines 129-140): idx.basic is the answer of the plain
\* vectorstore.similarity_search(query, k) (Ok of a list of chunks, or Raise).
\* A fallback that tags its results like ranked ones
FallbackSearchMistagged(k, idx) ==
    IF idx.basic.raised THEN <<>>
    ELSE [i \in DOMAIN FirstN(idx.basic.val, k) |->
             [content  |-> PageContent(idx.basic.val[i]),
              metadata |-> [search_type |-> "optimized_semantic"]
                           @@ DocMetadata(idx.basic.val[i])]]

FallbackSearch(k, idx) ==
    IF idx.basic.raised THEN <<>>
    ELSE [i \in DOMAIN FirstN(idx.basic.val, k) |->
             [content  |-> PageContent(idx.basic.val[i]),
              metadata |-> [search_type |-> "fallback_basic"]
                           @@ DocMetadata(idx.basic.val[i])]]

\* A search whose except branch gives up instead of falling back
SimilaritySearchNoFallback(query, k, threshold, idx) ==
    LET ranked == RankedSearch(query, k, threshold, idx)
    IN  IF ranked.raised THEN <<>> ELSE ranked.val

similarity_search(query, k, threshold, idx) ==
    LET ranked == RankedSearch(query, k, threshold, idx)
    IN  IF ranked.raised THEN FallbackSearch(k, idx) ELSE ranked.val

\* ------------------------------------------------------------------------
\* EnhancedLLMService (llm_service.py): pure parts
\* ------------------------------------------------------------------------
\* hashlib.md5(...).hexdigest(), taken to be injective on the questions used
MD5(text) == [md5 |-> text]

_generate_cache_key(question) == MD5(Strip(Lower(question)))

\* A cache read that serves whatever is stored, without an age check
GetCachedIgnoringTTL(cache, cache_key, t) ==
    IF cache_key \in DOMAIN cache THEN Some(cache[cache_key]) ELSE None

_get_cached_response(cache, cache_key, t) == None

\* The response texts: a fixed message, the generated text or the text of
\* the exception that the message embeds.
Message(m) == [msg |-> m, text |-> <<>>, err |-> ""]

NoInfoMessage == Message("no_relevant_information")

TimeoutApology == Message("apology_taking_longer")

GenericErrorMessage == Message("encountered_an_error")

LLMIssueMessage(e) == [msg |-> "found_documents_but_issue", text |-> <<>>, err |-> e]

AnswerText(answer) == [msg |-> "answer", text |-> Strip(answer), err |-> ""]

\* metadata.get('source_file', metadata.get('filename', 'Unknown'))
MetaSource(metadata) ==
    IF "source_file" \in DOMAIN metadata THEN metadata.source_file
    ELSE IF "filename" \in DOMAIN metadata THEN metadata.filename
    ELSE "Unknown"

\* content[:300] + "..." if len(content) > 300 else content
Preview(content) ==
    IF content.len > SourcePreviewLen
    THEN [doc |-> content.doc, len |-> SourcePreviewLen, tail |-> "..."]
    ELSE content

_format_source_documents(docs) ==
    [i \in DOMAIN docs |->
        [content  |-> Preview(docs[i].content),
         metadata |-> docs[i].metadata,
         source   |-> MetaSource(docs[i].metadata)]]

\* A confidence that is not clamped at the end
ConfidenceUnclamped(question, docs, response) ==
    IF docs = <<>> THEN Ok(0)
    ELSE LET qw == Words(Lower(question))
             rw == Words(Lower(response))
         IN  IF qw = {} THEN Raise
             ELSE Ok(Min((1000 * Len(docs)) \div FullConfidenceDocs, 1000)
                     + (IF Len(response) > 200 THEN 100 ELSE 0)
                     + (200 * Cardinality(qw \cap rw)) \div Cardinality(qw))

\* Raises ZeroDivisionError when the question has no word.
_calculate_enhanced_confidence(question, docs, response) ==
    IF docs = <<>> THEN Ok(0)
    ELSE LET base  == Min((1000 * Len(docs)) \div FullConfidenceDocs, 1000)
             long  == IF Len(response) > 200 THEN 100 ELSE 0
             qw    == Words(Lower(question))
             rw    == Words(Lower(response))
         IN  IF qw = {} THEN Raise
             ELSE Ok(Min(1000, base + long
                               + (200 * Cardinality(qw \cap rw)) \div Cardinality(qw)))

\* A sentence loop that takes no sentence
SentencesNeverFit(sentences, i, truncated, limit) == truncated

\* The sentence loop of _intelligent_truncate (lines 289-293) from the i-th
\* sentence on: the length of `truncated', each sentence taken with its ". "
RECURSIVE SentencesThatFit(_, _, _, _)
SentencesThatFit(sentences, i, truncated, limit) ==
    IF i > Len(sentences) THEN truncated
    ELSE IF truncated + sentences[i] + 2 <= limit
         THEN SentencesThatFit(sentences, i + 1, truncated + sentences[i] + 2, limit)
         ELSE truncated

\* A truncation that leaves no room for the "..."
TruncateWithoutRoomForEllipsis(content, max_length) ==
    IF content.len <= max_length THEN content
    ELSE [doc |-> content.doc, len |-> max_length, tail |-> "..."]

\* _intelligent_truncate(text, max_length) of the text of a whole chunk, which
\* begins with a character that is not whitespace: truncated.strip() + "..."
\* drops the space after the last sentence taken; text[:max_length - 3] + "..."
\* when no sentence fits
_intelligent_truncate(content, max_length) ==
    IF content.len <= max_length THEN content
    ELSE LET truncated == SentencesThatFit(DocSentences(content.doc), 1, 0,
                                           max_length - 3)
         IN  IF truncated > 0
             THEN [doc |-> content.doc, len |-> truncated - 1, tail |-> "..."]
             ELSE [doc |-> content.doc, len |-> max_length - 3, tail |-> "..."]

\* A context loop that goes on to later chunks after one did not fit
RECURSIVE ContextLoopSkipAhead(_, _, _, _)
ContextLoopSkipAhead(relevant_docs, i, total_chars, contexts) ==
    IF i > Len(relevant_docs) THEN contexts
    ELSE LET content == relevant_docs[i].content
         IN  IF content.len = 0
             THEN ContextLoopSkipAhead(relevant_docs, i + 1, total_chars, contexts)
             ELSE IF total_chars + content.len > max_context_chars
             THEN ContextLoopSkipAhead(relevant_docs, i + 1, total_chars, contexts)
             ELSE ContextLoopSkipAhead(relevant_docs, i + 1, total_chars + content.len,
                      Append(contexts, [source |-> i, content |-> content]))

\* The context loop of _process_query (lines 154-171) from the i-th retrieved
\* chunk on: the list `contexts', each entry "Source i: content"
RECURSIVE ContextLoop(_, _, _, _)
ContextLoop(relevant_docs, i, total_chars, contexts) ==
    IF i > Len(relevant_docs) THEN contexts
    ELSE LET content == relevant_docs[i].content
         IN  IF content.len = 0
             THEN ContextLoop(relevant_docs, i + 1, total_chars, contexts)
             ELSE IF total_chars + content.len > max_context_chars
             THEN LET remaining_chars == max_context_chars - total_chars
                  IN  IF remaining_chars > MinTruncatedChars
                      THEN Append(contexts,
                               [source  |-> i,
                                content |-> _intelligent_truncate(content,
                                                                  remaining_chars)])
                      ELSE contexts
             ELSE ContextLoop(relevant_docs, i + 1, total_chars + content.len,
                      Append(contexts, [source |-> i, content |-> content]))

\* _create_optimized_prompt (lines 301-317): a fixed template around the
\* context and the question; it has no place for the conversation
_create_optimized_prompt(question, context) ==
    [template |-> "optimized", context |-> context, question |-> question]

\* The dict returned when retrieval yields nothing (lines 140-147)
EmptyResultAnswer(pt) ==
    [response         |-> NoInfoMessage,
     source_documents |-> <<>>,
     confidence       |-> 0,
     processing_time  |-> pt]

\* A degraded answer that lists every retrieved chunk
DegradedAnswerAllSources(relevant_docs, llm_error, pt) ==
    [response         |-> LLMIssueMessage(llm_error),
     source_documents |-> _format_source_documents(relevant_docs),
     confidence       |-> DegradedConfidence,
     processing_time  |-> pt]

\* The dict returned when _call_llm_with_retry raised (lines 189-196)
DegradedAnswer(relevant_docs, llm_error, pt) ==
    [response         |-> LLMIssueMessage(llm_error),
     source_documents |-> _format_source_documents(FirstN(relevant_docs, DegradedSourceLimit)),
     confidence       |-> DegradedConfidence,
     processing_time  |-> pt]

\* The dict returned after a successful generation (lines 198-210), or Raise
SuccessAnswer(question, relevant_docs, answer, pt) ==
    LET confidence == _calculate_enhanced_confidence(question, relevant_docs, answer)
    IN  IF confidence.raised THEN Raise
        ELSE Ok([response             |-> AnswerText(answer),
                 source_documents     |-> _format_source_documents(relevant_docs),
                 confidence           |-> confidence.val,
                 retrieved_docs_count |-> Len(relevant_docs),
                 processing_time      |-> pt])

\* {**result, 'processing_time': ..., 'timestamp': ..., ...} (lines 95-101)
EnhancedResult(res, processing_time, t) ==
    [processing_time |-> processing_time,
     timestamp       |-> t,
     model_used      |-> OLLAMA_MODEL,
     cached          |-> FALSE] @@ res

\* The timeout handled by the generic handler (str(TimeoutError()) is empty)
TimeoutResultAsGenericError(timeout) ==
    [response         |-> GenericErrorMessage,
     error            |-> "",
     processing_time  |-> timeout,
     source_documents |-> <<>>]

TimeoutResult(timeout) ==
    [response         |-> TimeoutApology,
     error            |-> "timeout",
     processing_time  |-> timeout,
     source_documents |-> <<>>]

ErrorResult(e, pt) ==
    [response         |-> GenericErrorMessage,
     error            |-> e,
     processing_time  |-> pt,
     source_documents |-> <<>>]

\* self.response_cache[cache_key] = (response, time.time())
_cache_response(cache, cache_key, response, t) ==
    IF ENABLE_QUERY_CACHE
    THEN (cache_key :> [response |-> response, created_at |-> t]) @@ cache
    ELSE cache

\* ------------------------------------------------------------------------
\* DocumentProcessor and the chunkers (document_processor.py)
\* ------------------------------------------------------------------------
\* hashlib.sha256(...).hexdigest(), taken to be injective
SHA256(content) == [sha256 |-> content]

generate_content_hash(content) == SHA256(content)

\* A duplicate test that never records what it has seen
IsDuplicateForgetful(processed_hashes, content) ==
    [returned         |-> generate_content_hash(content) \in processed_hashes,
     processed_hashes |-> processed_hashes]

\* is_duplicate (lines 221-227): the value returned and the set afterwards
is_duplicate(processed_hashes, content) ==
    LET content_hash == generate_content_hash(content)
    IN  IF content_hash \in processed_hashes
        THEN [returned |-> TRUE, processed_hashes |-> processed_hashes]
        ELSE [returned         |-> FALSE,
              processed_hashes |-> processed_hashes \cup {content_hash}]

\* text.split('\n\n'): the pieces between the separators, empty ones included
RECURSIVE SplitParagraphs(_, _, _)
SplitParagraphs(text, cur, acc) ==
    IF text = <<>> THEN Append(acc, cur)
    ELSE IF Len(text) >= 2 /\ text[1] = "\n" /\ text[2] = "\n"
         THEN SplitParagraphs(SubSeq(text, 3, Len(text)), <<>>, Append(acc, cur))
         ELSE SplitParagraphs(Tail(text), Append(cur, Head(text)), acc)

\* [p.strip() for p in text.split('\n\n') if p.strip()]
Paragraphs(text) ==
    LET pieces   == SplitParagraphs(text, <<>>, <<>>)
        stripped == [i \in DOMAIN pieces |-> Strip(pieces[i])]
    IN  SelectSeq(stripped, LAMBDA p : p # <<>>)

\* current_chunk[-n:]; with n = 0 the slice [-0:] is the whole text
LastChars(text, n) ==
    IF n = 0 THEN text ELSE SubSeq(text, Len(text) - Min(n, Len(text)) + 1, Len(text))

\* chunk[:n]
FirstChars(text, n) == SubSeq(text, 1, Min(n, Len(text)))

\* One chunk dict.  The file name in the chunk_id is the same for all chunks
\* of a call.
Chunk(content, chunk_index, measured, strategy, id_text) ==
    [content  |-> content,
     metadata |-> [chunk_index |-> chunk_index, chunk_size |-> Len(measured),
                   chunking_strategy |-> strategy],
     chunk_id |-> MD5(<<chunk_index, FirstChars(id_text, 50)>>)]

\* The paragraph loop of SemanticChunker.chunk_text (lines 77-116), from the
\* i-th paragraph on
RECURSIVE SemanticLoop(_, _, _, _, _, _, _)
SemanticLoop(paragraphs, i, current_chunk, chunk_index, chunks, chunk_size, chunk_overlap) ==
    IF i > Len(paragraphs)
    THEN IF current_chunk # <<>>
         THEN Append(chunks, Chunk(Strip(current_chunk), chunk_index, current_chunk,
                                   "semantic", current_chunk))
         ELSE chunks
    ELSE LET paragraph == paragraphs[i]
         IN  IF Len(current_chunk) + Len(paragraph) > chunk_size /\ current_chunk # <<>>
             THEN LET overlap_text == IF Len(current_chunk) > chunk_overlap
                                      THEN LastChars(current_chunk, chunk_overlap)
                                      ELSE current_chunk
                  IN  SemanticLoop(paragraphs, i + 1,
                                   overlap_text \o <<"\n", "\n">> \o paragraph,
                                   chunk_index + 1,
                                   Append(chunks,
                                          Chunk(Strip(current_chunk), chunk_index,
                                                current_chunk, "semantic", current_chunk)),
                                   chunk_size, chunk_overlap)
             ELSE SemanticLoop(paragraphs, i + 1,
                               IF current_chunk # <<>>
                               THEN current_chunk \o <<"\n", "\n">> \o paragraph
                               ELSE paragraph,
                               chunk_index, chunks, chunk_size, chunk_overlap)

\* A semantic chunker that forgets the buffer left after the last paragraph
SemanticChunkTextLosesLast(text, chunk_size, chunk_overlap) ==
    LET chunks == SemanticLoop(Paragraphs(text), 1, <<>>, 0, <<>>, chunk_size,
                               chunk_overlap)
    IN  SubSeq(chunks, 1, Len(chunks) - 1)

\* SemanticChunker.chunk_text
SemanticChunkText(text, chunk_size, chunk_overlap) ==
    SemanticLoop(Paragraphs(text), 1, <<>>, 0, <<>>, chunk_size, chunk_overlap)

\* RecursiveCharacterTextSplitter.split_text of the text-splitting library:
\* pieces of at most chunk_size characters, each stripped, none empty.  Here
\* the pieces are cut every `width' characters, width <= chunk_size.
RECURSIVE split_text(_, _)
split_text(text, width) ==
    IF text = <<>> THEN <<>>
    ELSE LET piece == Strip(FirstChars(text, width))
             rest  == split_text(SubSeq(text, Min(width, Len(text)) + 1, Len(text)), width)
         IN  IF piece = <<>> THEN rest ELSE <<piece>> \o rest

\* RecursiveChunker.chunk_text (lines 40-59)
RecursiveChunkText(text, width) ==
    LET pieces == split_text(text, width)
    IN  [i \in DOMAIN pieces |-> Chunk(pieces[i], i - 1, pieces[i], "recursive", pieces[i])]

\* A hybrid chunker that re-splits only above twice the chunk size
NeedsResplitAboveDouble(content, chunk_size) == Len(content) > 2 * chunk_size

\* len(chunk['content']) > self.semantic_chunker.chunk_size * 1.5
NeedsResplit(content, chunk_size) == 2 * Len(content) > 3 * chunk_size

Retag(chunk, strategy) ==
    [chunk EXCEPT !.metadata.chunking_strategy = strategy]

\* The loop of HybridChunker.chunk_text (lines 134-143), from the i-th
\* semantic chunk on
RECURSIVE HybridLoop(_, _, _, _)
HybridLoop(semantic_chunks, i, chunk_size, width) ==
    IF i > Len(semantic_chunks) THEN <<>>
    ELSE LET chunk == semantic_chunks[i]
             rest  == HybridLoop(semantic_chunks, i + 1, chunk_size, width)
         IN  IF NeedsResplit(chunk.content, chunk_size)
             THEN LET recursive_chunks == RecursiveChunkText(chunk.content, width)
                  IN  [n \in DOMAIN recursive_chunks |->
                          Retag(recursive_chunks[n], "hybrid")] \o rest
             ELSE <<Retag(chunk, "hybrid")>> \o rest

\* HybridChunker.chunk_text
HybridChunkText(text, chunk_size, chunk_overlap, width) ==
    HybridLoop(SemanticChunkText(text, chunk_size, chunk_overlap), 1, chunk_size, width)

\* ------------------------------------------------------------------------
\* Inputs offered by the environment
\* ------------------------------------------------------------------------
\* Questions: "A " (one word, cache key md5("a")) and " " (no word)
Questions == { <<"A", " ">>, <<" ">> }

\* Two spellings of one question: the same cache key
SameKeyQuestions == { <<"A", " ">>, <<"a">> }

\* timeout argument of get_response; 0 stands for None
TimeoutArgs == {0, 2}

Scored(d, score) == [doc |-> d, score |-> score]

\* What the index does for one query
IndexBehaviours ==
    { [count  |-> Raise,
       scored |-> Ok(<<Scored("d2", 300), Scored("d1", 200), Scored("d3", 100),
                       Scored("d4", 400)>>),
       basic  |-> Ok(<<"d1", "d2">>)],
      [count |-> Ok(1), scored |-> Ok(<<Scored("d4", 980)>>), basic |-> Ok(<<"d4">>)],
      [count |-> Ok(4), scored |-> Raise, basic |-> Ok(<<"d2">>)],
      [count |-> Raise, scored |-> Raise, basic |-> Raise] }

LLMError(e) == [raised |-> TRUE, err |-> e]

\* What one call of the generation backend does
LLMOutcomes == { Ok(<<" ", "a">>), Ok(<<"b">>), LLMError("connection refused") }

ZeroDivisionError == "division by zero"

FullWorkload ==
    [calls     |-> 1..MaxCalls,
     questions |-> Questions,
     timeouts  |-> TimeoutArgs,
     indexes   |-> IndexBehaviours,
     llm       |-> LLMOutcomes,
     outages   |-> (max_retries + 1) * MaxCalls,
     idle_for  |-> {}]

\* Many callers, one question, a short timeout, a healthy index and a
\* backend that fails at most once
PoolWorkload ==
    [calls     |-> 1..PoolCalls,
     questions |-> { <<"A", " ">> },
     timeouts  |-> {2},
     indexes   |-> { [count |-> Ok(4), scored |-> Ok(<<Scored("d2", 300)>>),
                       basic |-> Ok(<<"d2">>)] },
     llm       |-> { Ok(<<" ", "a">>), LLMError("connection refused") },
     outages   |-> 1,
     idle_for  |-> {}]

\* A few callers of one question, with long idle periods between queries
\* and a backend that fails at most once
CacheWorkload ==
    [calls     |-> 1..CacheCalls,
     questions |-> SameKeyQuestions,
     timeouts  |-> {0},
     indexes   |-> { [count |-> Ok(4), scored |-> Ok(<<Scored("d2", 300)>>),
                       basic |-> Ok(<<"d2">>)] },
     llm       |-> { Ok(<<" ", "a">>), LLMError("connection refused") },
     outages   |-> 1,
     idle_for  |-> {CACHE_TTL_SECONDS}]

\* Concurrent callers of both questions with a short timeout, a healthy
\* index and a backend that fails at most once
MixedWorkload ==
    [calls     |-> 1..CacheCalls,
     questions |-> Questions,
     timeouts  |-> {2},
     indexes   |-> { [count |-> Ok(4), scored |-> Ok(<<Scored("d2", 300)>>),
                       basic |-> Ok(<<"d2">>)] },
     llm       |-> { Ok(<<" ", "a">>), LLMError("connection refused") },
     outages   |-> 1,
     idle_for  |-> {}]

\* ------------------------------------------------------------------------
\* State
\* ------------------------------------------------------------------------
VARIABLES
    now,            \* time.time()
    ticks,          \* number of clock steps taken
    workload,       \* the inputs the environment offers (fixed)
    pc,             \* per get_response call: "idle", "waiting", "done"
    args,           \* per call: question, timeout (after `or 60`), start_time
    result,         \* per call: the dict returned
    future,         \* per call: the Future of its submitted task
    work_queue,     \* the executor's queue of submitted, not yet started tasks
    task,           \* per call: the locals of its _process_query task
    response_cache, \* self.response_cache
    conversation_memory, \* self.conversation_memory: the turns it holds
    hist,           \* per call: what has happened (observation only)
    query_call,     \* a query taken through the ranker's query functions
    search_call,    \* a similarity_search call and the context built from it
    processor,      \* a DocumentProcessor: processed_hashes and its calls
    chunk_call,     \* a chunk_text call of a chunker
    confidence_call, \* the scoring and return of a generated answer
    ingestion,      \* the uploads: DocumentProcessor, vector store, each upload's locals
    limiter         \* check_rate_limit: the clock, request_count, each request's locals

\* The state of the query orchestrator
orchestrator == <<now, ticks, workload, pc, args, result, future, work_queue, task,
                  response_cache, conversation_memory, hist>>

\* The state of the components when they are exercised on their own
components == <<query_call, search_call, processor, chunk_call, confidence_call,
                ingestion, limiter>>

vars == <<orchestrator, components>>

Calls == workload.calls

NoArgs == [question |-> <<>>, timeout |-> 0, start_time |-> 0]

NoResult == [returned |-> FALSE]

NoFuture == [state |-> "none"]

NoTask == [at |-> "none", start_time |-> 0, relevant_docs |-> <<>>, prompt |-> <<>>,
           attempt |-> 0, wake |-> 0]

\* A task that has returned or raised: its locals are gone
EndedTask == [NoTask EXCEPT !.at = "end"]

\* llm_calls, failures, pauses: backend calls begun, backend calls that raised,
\*   time.sleep calls made;  answered_by: the number of the call that returned
\*   text (0: none), answer: that text;  paused_ok: every call after the first
\*   began at least RetryPause after the failure before it
\* started: the task was taken by a worker;  idx: what the index did for it
\* ranked_raised: the ranked path raised;  retrieved: what similarity_search
\*   returned
\* live_at_lookup, stale_at_lookup: the cache held an entry for the key at
\*   the cache check, younger than the TTL or not;  hit_age: age of the entry
\*   served from the cache (-1: none served)
\* starved_at_submit: at submission every worker was held by the task of a
\*   call that had timed out
\* future_at_return: the state of the Future when get_response returned
NoIdx == [count |-> Raise, scored |-> Raise, basic |-> Raise]

NoHist == [llm_calls |-> 0, failures |-> 0, pauses |-> 0, last_failure |-> 0,
           paused_ok |-> TRUE, answered_by |-> 0, answer |-> <<>>,
           started |-> FALSE, idx |-> NoIdx, ranked_raised |-> FALSE,
           retrieved |-> <<>>,
           live_at_lookup |-> FALSE, stale_at_lookup |-> FALSE, hit_age |-> -1,
           starved_at_submit |-> FALSE, future_at_return |-> "none"]

\* A component that is not being exercised
NoCall == [stage |-> "none"]

NoProcessor == [processed_hashes |-> {}, calls |-> <<>>]

InitOrchestrator(w) ==
    /\ now = 0
    /\ ticks = 0
    /\ workload = w
    /\ pc = [c \in w.calls |-> "idle"]
    /\ args = [c \in w.calls |-> NoArgs]
    /\ result = [c \in w.calls |-> NoResult]
    /\ future = [c \in w.calls |-> NoFuture]
    /\ work_queue = <<>>
    /\ task = [c \in w.calls |-> NoTask]
    /\ response_cache = <<>>
    /\ conversation_memory = <<>>
    /\ hist = [c \in w.calls |-> NoHist]

InitWith(w) ==
    /\ InitOrchestrator(w)
    /\ ingestion = NoCall
    /\ limiter = NoCall
    /\ query_call = NoCall
    /\ search_call = NoCall
    /\ processor = NoProcessor
    /\ chunk_call = NoCall
    /\ confidence_call = NoCall

Init == InitWith(FullWorkload)

InitPool == InitWith(PoolWorkload)

InitCache == InitWith(CacheWorkload)

InitMixed == InitWith(MixedWorkload)

\* The locks call c holds while it runs get_response and _cache_response:
\* the service has no lock and these methods acquire none
LocksHeld(c) == {}

\* The tasks that occupy a worker thread of the pool
Running == {c \in Calls : task[c].at \in {"llm", "sleep"}}

\* An executor that starts a thread for every submitted task
WorkerAlwaysFree == TRUE

\* ThreadPoolExecutor(max_workers=3): a worker thread is free
WorkerFree == Cardinality(Running) < max_workers

\* A query that goes on to generation with nothing retrieved
NoDocsNever(relevant_docs) == FALSE

\* if not relevant_docs (line 140)
NoDocs(relevant_docs) == relevant_docs = <<>>

\* A retry loop that runs once too often
FinalAttemptOffByOne(attempt) == attempt = max_retries + 1

\* if attempt == max_retries (line 326)
FinalAttempt(attempt) == attempt = max_retries

IsTimeoutResult(r) == "error" \in DOMAIN r /\ r.error = "timeout"

TimedOut(c) == pc[c] = "done" /\ IsTimeoutResult(result[c])

Deadline(c) == args[c].start_time + args[c].timeout

\* The task of call c returns res (or raises exc): the Future keeps the
\* outcome for a caller that still waits; the worker is free again.
SetResult(c, res) ==
    [state |-> "finished"] @@ (IF pc[c] = "waiting" THEN [result |-> res] ELSE <<>>)

SetException(c, exc) ==
    [state |-> "raised"] @@ (IF pc[c] = "waiting" THEN [exception |-> exc] ELSE <<>>)

\* ------------------------------------------------------------------------
\* Actions
\* ------------------------------------------------------------------------
\* get_response, lines 75-90: cache check, then submit to the executor.
\* Calls are numbered in the order in which they are issued.
GetResponse(c, question, timeout_arg) ==
    /\ pc[c] = "idle"
    /\ \A b \in Calls : b < c => pc[b] # "idle"
    /\ LET timeout   == IF timeout_arg = 0 THEN DefaultTimeout ELSE timeout_arg
           cache_key == _generate_cache_key(question)
           cached    == _get_cached_response(response_cache, cache_key, now)
           stored    == cache_key \in DOMAIN response_cache
           stale     == /\ stored
                        /\ now - response_cache[cache_key].created_at >= CACHE_TTL_SECONDS
           starved   == /\ Cardinality(Running) = max_workers
                        /\ \A r \in Running : TimedOut(r)
       IN  IF ~cached.none
           THEN /\ pc' = [pc EXCEPT ![c] = "done"]
                /\ args' = [args EXCEPT ![c] = [question |-> question,
                                                timeout |-> timeout, start_time |-> 0]]
                /\ result' = [result EXCEPT ![c] = cached.val.response]
                /\ hist' = [hist EXCEPT ![c].hit_age = now - cached.val.created_at,
                                        ![c].live_at_lookup = stored /\ ~stale,
                                        ![c].stale_at_lookup = stale]
                /\ UNCHANGED <<future, work_queue>>
           ELSE /\ pc' = [pc EXCEPT ![c] = "waiting"]
                /\ args' = [args EXCEPT ![c] = [question |-> question,
                                                timeout |-> timeout, start_time |-> now]]
                /\ future' = [future EXCEPT ![c] = [state |-> "pending"]]
                /\ work_queue' = Append(work_queue, c)
                /\ hist' = [hist EXCEPT ![c].live_at_lookup = stored /\ ~stale,
                                        ![c].stale_at_lookup = stale,
                                        ![c].starved_at_submit = starved]
                /\ UNCHANGED result
    /\ UNCHANGED <<now, ticks, workload, task, response_cache>>
    /\ UNCHANGED <<conversation_memory, components>>

\* ThreadPoolExecutor(max_workers=3): a free worker takes the oldest
\* submitted task and runs _process_query (lines 126-187) up to its first
\* call of the backend: retrieval, the empty-result return, context and prompt.
StartTask(c, idx) ==
    /\ work_queue # <<>>
    /\ c = Head(work_queue)
    /\ WorkerFree
    /\ work_queue' = Tail(work_queue)
    /\ LET question      == args[c].question
           relevant_docs == similarity_search(question, TOP_K, BaseThreshold, idx)
           ranked        == RankedSearch(question, TOP_K, BaseThreshold, idx)
       IN  /\ hist' = [hist EXCEPT ![c].started = TRUE,
                                   ![c].idx = idx,
                                   ![c].ranked_raised = ranked.raised,
                                   ![c].retrieved = relevant_docs,
                                   ![c].llm_calls = IF NoDocs(relevant_docs) THEN 0 ELSE 1]
           /\ IF NoDocs(relevant_docs)
              THEN /\ task' = [task EXCEPT ![c] = EndedTask]
                   /\ future' = [future EXCEPT ![c] = SetResult(c, EmptyResultAnswer(0))]
              ELSE /\ task' = [task EXCEPT ![c] = [NoTask EXCEPT
                                                      !.at = "llm",
                                                      !.start_time = now,
                                                      !.relevant_docs = relevant_docs,
                                                      !.prompt =
                                                          _create_optimized_prompt(
                                                              question,
                                                              ContextLoop(relevant_docs,
                                                                          1, 0, <<>>)),
                                                      !.attempt = 0]]
                   /\ future' = [future EXCEPT ![c] = [state |-> "running"]]
    /\ UNCHANGED <<now, ticks, workload, pc, args, result, response_cache>>
    /\ UNCHANGED <<conversation_memory, components>>

\* The number of backend calls that have failed so far
RECURSIVE Failures(_)
Failures(S) ==
    IF S = {} THEN 0
    ELSE LET c == CHOOSE x \in S : TRUE
         IN  hist[c].failures + Failures(S \ {c})

\* _call_llm_with_retry, lines 321-329, with the rest of _process_query
\* (lines 188-210): the backend call of the current attempt returns or raises.
\* The workload bounds how often the backend fails.
LLMStep(c, outcome) ==
    /\ task[c].at = "llm"
    /\ outcome.raised => Failures(Calls) < workload.outages
    /\ LET pt    == now - task[c].start_time
           final == FinalAttempt(task[c].attempt)
       IN  IF ~outcome.raised
           THEN LET res == SuccessAnswer(args[c].question, task[c].relevant_docs,
                                         outcome.val, pt)
                IN  /\ task' = [task EXCEPT ![c] = EndedTask]
                    /\ future' = [future EXCEPT ![c] =
                          IF res.raised THEN SetException(c, ZeroDivisionError)
                                        ELSE SetResult(c, res.val)]
                    /\ hist' = [hist EXCEPT ![c].answered_by = hist[c].llm_calls,
                                            ![c].answer = outcome.val,
                                            ![c].last_failure = 0]
           ELSE /\ hist' = [hist EXCEPT ![c].failures = @ + 1,
                                        ![c].last_failure = IF final THEN 0 ELSE now,
                                        ![c].pauses = IF final THEN @ ELSE @ + 1]
                /\ IF final
                   THEN /\ task' = [task EXCEPT ![c] = EndedTask]
                        /\ future' = [future EXCEPT ![c] =
                              SetResult(c, DegradedAnswer(task[c].relevant_docs,
                                                          outcome.err, pt))]
                   ELSE /\ task' = [task EXCEPT ![c].at = "sleep",
                                                ![c].wake = now + RetryPause]
                        /\ UNCHANGED future
    /\ UNCHANGED <<now, ticks, workload, pc, args, result, work_queue>>
    /\ UNCHANGED <<conversation_memory, components>>

\* A task that stores its own answer in the response cache
LLMReturnCaching(c, outcome) ==
    /\ LLMStep(c, outcome)
    /\ response_cache' =
          IF outcome.raised THEN response_cache
          ELSE _cache_response(response_cache, _generate_cache_key(args[c].question),
                               [response |-> AnswerText(outcome.val)], now)

LLMReturn(c, outcome) ==
    /\ LLMStep(c, outcome)
    /\ UNCHANGED response_cache

\* time.sleep(1) is over: the next attempt calls the backend (lines 321-323).
Wake(c) ==
    /\ task[c].at = "sleep"
    /\ now >= task[c].wake
    /\ task' = [task EXCEPT ![c].at = "llm", ![c].attempt = @ + 1, ![c].wake = 0]
    /\ hist' = [hist EXCEPT ![c].llm_calls = @ + 1,
                            ![c].paused_ok = @ /\ now - hist[c].last_failure >= 1,
                            ![c].last_failure = 0]
    /\ UNCHANGED <<now, ticks, workload, pc, args, result, future, work_queue,
                   response_cache>>
    /\ UNCHANGED <<conversation_memory, components>>

\* A get_response without the generic handler: the exception of the task
\* propagates to the caller, who gets no result
ReceiveReraises(c) ==
    /\ pc[c] = "waiting"
    /\ future[c].state \in {"finished", "raised"}
    /\ hist' = [hist EXCEPT ![c].future_at_return = future[c].state]
    /\ args' = [args EXCEPT ![c].start_time = 0]
    /\ future' = [future EXCEPT ![c] = [state |-> future[c].state]]
    /\ IF future[c].state = "finished"
       THEN LET enhanced_result == EnhancedResult(future[c].result,
                                                  now - args[c].start_time, now)
            IN  /\ pc' = [pc EXCEPT ![c] = "done"]
                /\ response_cache' = _cache_response(response_cache,
                                        _generate_cache_key(args[c].question),
                                        enhanced_result, now)
                /\ result' = [result EXCEPT ![c] = enhanced_result]
       ELSE /\ pc' = [pc EXCEPT ![c] = "raised"]
            /\ UNCHANGED <<result, response_cache>>
    /\ UNCHANGED <<now, ticks, workload, work_queue, task>>
    /\ UNCHANGED <<conversation_memory, components>>

\* get_response, lines 90-107 and 117-124: future.result returns the task's
\* result or re-raises its exception; the frame's locals are released.
Receive(c) ==
    /\ pc[c] = "waiting"
    /\ future[c].state \in {"finished", "raised"}
    /\ pc' = [pc EXCEPT ![c] = "done"]
    /\ hist' = [hist EXCEPT ![c].future_at_return = future[c].state]
    /\ args' = [args EXCEPT ![c].start_time = 0]
    /\ future' = [future EXCEPT ![c] = [state |-> future[c].state]]
    /\ IF future[c].state = "finished"
       THEN LET enhanced_result == EnhancedResult(future[c].result,
                                                  now - args[c].start_time, now)
            IN  /\ response_cache' = _cache_response(response_cache,
                                        _generate_cache_key(args[c].question),
                                        enhanced_result, now)
                /\ result' = [result EXCEPT ![c] = enhanced_result]
       ELSE /\ result' = [result EXCEPT ![c] =
                             ErrorResult(future[c].exception, now - args[c].start_time)]
            /\ UNCHANGED response_cache
    /\ UNCHANGED <<now, ticks, workload, work_queue, task>>
    /\ UNCHANGED <<conversation_memory, components>>

\* A timeout handler that cancels the Future: a task still queued is removed
TimeoutCancels(c) ==
    /\ pc[c] = "waiting"
    /\ future[c].state \in {"pending", "running"}
    /\ now >= Deadline(c)
    /\ pc' = [pc EXCEPT ![c] = "done"]
    /\ result' = [result EXCEPT ![c] = TimeoutResult(args[c].timeout)]
    /\ hist' = [hist EXCEPT ![c].future_at_return = future[c].state]
    /\ args' = [args EXCEPT ![c].start_time = 0]
    /\ IF future[c].state = "pending"
       THEN /\ future' = [future EXCEPT ![c] = [state |-> "cancelled"]]
            /\ work_queue' = SelectSeq(work_queue, LAMBDA x : x # c)
       ELSE UNCHANGED <<future, work_queue>>
    /\ UNCHANGED <<now, ticks, workload, task, response_cache>>
    /\ UNCHANGED <<conversation_memory, components>>

\* A timeout handler that stores the timeout result in the response cache
TimeoutCaches(c) ==
    /\ pc[c] = "waiting"
    /\ future[c].state \in {"pending", "running"}
    /\ now >= Deadline(c)
    /\ pc' = [pc EXCEPT ![c] = "done"]
    /\ result' = [result EXCEPT ![c] = TimeoutResult(args[c].timeout)]
    /\ response_cache' = _cache_response(response_cache,
                                         _generate_cache_key(args[c].question),
                                         TimeoutResult(args[c].timeout), now)
    /\ hist' = [hist EXCEPT ![c].future_at_return = future[c].state]
    /\ args' = [args EXCEPT ![c].start_time = 0]
    /\ UNCHANGED <<now, ticks, workload, future, work_queue, task>>
    /\ UNCHANGED <<conversation_memory, components>>

\* get_response, lines 109-116: future.result(timeout) raised TimeoutError.
\* The future is not cancelled: the task stays queued or running.
Timeout(c) ==
    /\ pc[c] = "waiting"
    /\ future[c].state \in {"pending", "running"}
    /\ now >= Deadline(c)
    /\ pc' = [pc EXCEPT ![c] = "done"]
    /\ result' = [result EXCEPT ![c] = TimeoutResult(args[c].timeout)]
    /\ hist' = [hist EXCEPT ![c].future_at_return = future[c].state]
    /\ args' = [args EXCEPT ![c].start_time = 0]
    /\ UNCHANGED <<now, ticks, workload, future, work_queue, task, response_cache>>
    /\ UNCHANGED <<conversation_memory, components>>

\* Time passes: up to the next deadline or wake-up time, or by an idle period
\* of the workload.  A waiting caller is woken no later than its deadline.
TickTargets ==
    {now + d : d \in workload.idle_for}
        \cup {Deadline(c) : c \in {b \in Calls : pc[b] = "waiting"}}
        \cup {task[c].wake : c \in {b \in Calls : task[b].at = "sleep"}}

Tick ==
    /\ ticks < MaxTicks
    /\ \E t \in TickTargets :
          /\ t > now
          /\ \A c \in Calls : pc[c] = "waiting" => t <= Deadline(c)
          /\ now' = t
    /\ ticks' = ticks + 1
    /\ UNCHANGED <<workload, pc, args, result, future, work_queue, task,
                   response_cache, hist>>
    /\ UNCHANGED <<conversation_memory, components>>

Next ==
    \/ \E c \in Calls, q \in workload.questions, t \in workload.timeouts :
          GetResponse(c, q, t)
    \/ \E c \in Calls, idx \in workload.indexes : StartTask(c, idx)
    \/ \E c \in Calls, o \in workload.llm : LLMReturn(c, o)
    \/ \E c \in Calls : Wake(c)
    \/ \E c \in Calls : Receive(c)
    \/ \E c \in Calls : Timeout(c)
    \/ Tick

Spec == Init /\ [][Next]_vars

SpecPool == InitPool /\ [][Next]_vars

SpecCache == InitCache /\ [][Next]_vars

SpecMixed == InitMixed /\ [][Next]_vars

\* Time passes for as long as a caller waits or a task sleeps: the clock steps
\* of Tick, as many as the deadlines and wake-up times of the calls require.
Elapse ==
    /\ \E t \in TickTargets :
          /\ t > now
          /\ \A c \in Calls : pc[c] = "waiting" => t <= Deadline(c)
          /\ now' = t
    /\ ticks' = ticks + 1
    /\ UNCHANGED <<workload, pc, args, result, future, work_queue, task,
                   response_cache, hist>>
    /\ UNCHANGED <<conversation_memory, components>>

\* What happens without a new request: the worker threads run their tasks,
\* each backend call returns or raises, sleeps end, future.result returns
\* or times out, and time passes.
Progress ==
    \/ \E c \in Calls, idx \in workload.indexes : StartTask(c, idx)
    \/ \E c \in Calls, o \in workload.llm : LLMReturn(c, o)
    \/ \E c \in Calls : Wake(c)
    \/ \E c \in Calls : Receive(c)
    \/ \E c \in Calls : Timeout(c)
    \/ Elapse

NextLive ==
    \/ \E c \in Calls, q \in workload.questions, t \in workload.timeouts :
          GetResponse(c, q, t)
    \/ \E c \in Calls, idx \in workload.indexes : StartTask(c, idx)
    \/ \E c \in Calls, o \in workload.llm : LLMReturn(c, o)
    \/ \E c \in Calls : Wake(c)
    \/ \E c \in Calls : Receive(c)
    \/ \E c \in Calls : Timeout(c)
    \/ Elapse

\* The queries of the full workload under running threads and a running clock
SpecLive == Init /\ [][NextLive]_vars /\ WF_vars(Progress)

\* ------------------------------------------------------------------------
\* The ranker's query functions, exercised on their own
\* ------------------------------------------------------------------------
\* Pieces of query text
QueryFragments ==
    { NHD, USGS, GIS, NationalHydrographyDataset, GeographicInformationSystem,
      <<" ">>, <<"\n">>, <<"x">>, <<"v", "s">>, <<"V", "S">> }

\* The queries made of at most n fragments
RECURSIVE QueriesOf(_)
QueriesOf(n) ==
    IF n = 0 THEN { <<>> }
    ELSE QueriesOf(n - 1)
            \cup { q \o f : q \in QueriesOf(n - 1), f \in QueryFragments }

\* threshold arguments of similarity_search, in thousandths
BaseThresholds == {50, 100, 120, 150, 300}

InitQuery ==
    /\ InitOrchestrator(FullWorkload)
    /\ ingestion = NoCall
    /\ limiter = NoCall
    /\ query_call \in [stage : {"called"}, query : QueriesOf(MaxFragments),
                       base_threshold : BaseThresholds, adapted : {FALSE},
                       adjusted_threshold : {0}, texts : { <<>> }]
    /\ search_call = NoCall
    /\ processor = NoProcessor
    /\ chunk_call = NoCall
    /\ confidence_call = NoCall

\* adjusted_threshold = self._get_adaptive_threshold(query, threshold)
GetAdaptiveThreshold ==
    /\ query_call.stage = "called"
    /\ ~query_call.adapted
    /\ query_call' = [query_call EXCEPT
                         !.adapted = TRUE,
                         !.adjusted_threshold =
                             _get_adaptive_threshold(query_call.query,
                                                     query_call.base_threshold)]
    /\ UNCHANGED <<orchestrator, search_call, processor, chunk_call, confidence_call,
                   ingestion, limiter>>

\* processed_query = self._preprocess_query(query), applied to the query and
\* then to its own result
PreprocessQuery ==
    /\ query_call.stage = "called"
    /\ Len(query_call.texts) < MaxApplications
    /\ LET text == IF query_call.texts = <<>> THEN query_call.query
                   ELSE query_call.texts[Len(query_call.texts)]
       IN  query_call' = [query_call EXCEPT
                             !.texts = Append(@, _preprocess_query(text))]
    /\ UNCHANGED <<orchestrator, search_call, processor, chunk_call, confidence_call,
                   ingestion, limiter>>

NextQuery == GetAdaptiveThreshold \/ PreprocessQuery

SpecQuery == InitQuery /\ [][NextQuery]_vars

\* ------------------------------------------------------------------------
\* similarity_search and the context loop, exercised on their own
\* ------------------------------------------------------------------------
\* "A " (one token), " " (no token), "a vs" (a comparison), "a b b b" (long)
SearchQueries ==
    { <<"A", " ">>, <<" ">>, <<"a", " ", "v", "s">>,
      <<"a", " ", "b", " ", "b", " ", "b">> }

SearchKs == {1, 3, 7}

SearchThresholds == {150, 500}

\* An index that answers with distances below 0, within [0,1] and above 1,
\* nearest first
MixedDistanceIndex ==
    [count  |-> Ok(7),
     scored |-> Ok(<<Scored("d1", -50), Scored("d4", 100), Scored("d2", 120),
                     Scored("d7", 550), Scored("d3", 700), Scored("d5", 1500),
                     Scored("d6", 4000)>>),
     basic  |-> Ok(<<"d5", "d1", "d2", "d6">>)]

\* An index whose nearest chunk leaves room for less than a sentence of the
\* next one
LongChunkIndex ==
    [count  |-> Ok(2),
     scored |-> Ok(<<Scored("d6", 100), Scored("d5", 200)>>),
     basic  |-> Ok(<<"d6", "d5">>)]

SearchIndexes == IndexBehaviours \cup {MixedDistanceIndex, LongChunkIndex}

InitSearch ==
    /\ InitOrchestrator(FullWorkload)
    /\ ingestion = NoCall
    /\ limiter = NoCall
    /\ query_call = NoCall
    /\ search_call \in [stage : {"called"}, query : SearchQueries, k : SearchKs,
                        threshold : SearchThresholds, idx : SearchIndexes,
                        similarities : { <<>> }, ranked_raised : {FALSE},
                        relevant_docs : { <<>> }, contexts : { <<>> }]
    /\ processor = NoProcessor
    /\ chunk_call = NoCall
    /\ confidence_call = NoCall

\* relevant_docs = vector_store.similarity_search(query, k, threshold).
\* similarities: the similarity_score computed for each candidate (line 99).
SimilaritySearch ==
    /\ search_call.stage = "called"
    /\ LET c       == search_call
           results == similarity_search_with_score(_preprocess_query(c.query),
                                                   Min(c.k * 2, 20), c.idx)
       IN  search_call' = [c EXCEPT
              !.stage = "searched",
              !.similarities =
                  IF results.raised THEN <<>>
                  ELSE [i \in DOMAIN results.val |-> Similarity(results.val[i].score)],
              !.ranked_raised = RankedSearch(c.query, c.k, c.threshold, c.idx).raised,
              !.relevant_docs = similarity_search(c.query, c.k, c.threshold, c.idx)]
    /\ UNCHANGED <<orchestrator, query_call, processor, chunk_call, confidence_call,
                   ingestion, limiter>>

\* The context loop of _process_query over the retrieved chunks
AssembleContext ==
    /\ search_call.stage = "searched"
    /\ search_call' = [search_call EXCEPT
                          !.stage = "assembled",
                          !.contexts = ContextLoop(search_call.relevant_docs, 1, 0, <<>>)]
    /\ UNCHANGED <<orchestrator, query_call, processor, chunk_call, confidence_call,
                   ingestion, limiter>>

NextSearch == SimilaritySearch \/ AssembleContext

SpecSearch == InitSearch /\ [][NextSearch]_vars

\* ------------------------------------------------------------------------
\* The DocumentProcessor's deduplication, exercised on its own
\* ------------------------------------------------------------------------
\* Contents of documents: "", "a" and "a "
Contents == { <<>>, <<"a">>, <<"a", " ">> }

InitDedup ==
    /\ InitOrchestrator(FullWorkload)
    /\ ingestion = NoCall
    /\ limiter = NoCall
    /\ query_call = NoCall
    /\ search_call = NoCall
    /\ processor = NoProcessor
    /\ chunk_call = NoCall
    /\ confidence_call = NoCall

\* One call of document_processor.is_duplicate(content)
IsDuplicate(content) ==
    /\ Len(processor.calls) < MaxDedupCalls
    /\ LET r == is_duplicate(processor.processed_hashes, content)
       IN  processor' = [processed_hashes |-> r.processed_hashes,
                         calls |-> Append(processor.calls,
                                          [content |-> content, returned |-> r.returned])]
    /\ UNCHANGED <<orchestrator, query_call, search_call, chunk_call, confidence_call,
                   ingestion, limiter>>

NextDedup == \E content \in Contents : IsDuplicate(content)

SpecDedup == InitDedup /\ [][NextDedup]_vars

\* ------------------------------------------------------------------------
\* The chunkers, exercised on their own
\* ------------------------------------------------------------------------
TextChars == {"a", " ", "\n"}

\* The texts of at most n characters
RECURSIVE TextsOf(_)
TextsOf(n) ==
    IF n = 0 THEN { <<>> }
    ELSE TextsOf(n - 1) \cup { Append(t, ch) : t \in TextsOf(n - 1), ch \in TextChars }

\* chunk_size and chunk_overlap of the chunker: a positive size (config.py
\* line 72), an overlap below it
ChunkSizes == {2, 3}

ChunkOverlaps == {0, 1}

\* The chunking strategies: the classes RecursiveChunker, SemanticChunker and
\* HybridChunker
Strategies == {"recursive", "semantic", "hybrid"}

InitChunk ==
    /\ InitOrchestrator(FullWorkload)
    /\ ingestion = NoCall
    /\ limiter = NoCall
    /\ query_call = NoCall
    /\ search_call = NoCall
    /\ processor = NoProcessor
    /\ chunk_call \in [stage : {"called"}, strategy : Strategies,
                       text : TextsOf(MaxTextLen),
                       chunk_size : ChunkSizes, chunk_overlap : ChunkOverlaps,
                       semantic_chunks : { <<>> }, chunks : { <<>> }]
    /\ confidence_call = NoCall

\* RecursiveChunker(chunk_size, chunk_overlap).chunk_text(text, metadata), with
\* a splitter that cuts every `width' characters
RecursiveChunk(width) ==
    /\ chunk_call.stage = "called"
    /\ chunk_call.strategy = "recursive"
    /\ chunk_call' = [chunk_call EXCEPT
          !.stage = "chunked",
          !.chunks = RecursiveChunkText(chunk_call.text, width)]
    /\ UNCHANGED <<orchestrator, query_call, search_call, processor, confidence_call,
                   ingestion, limiter>>

\* SemanticChunker(chunk_size, chunk_overlap).chunk_text(text, metadata)
SemanticChunk ==
    /\ chunk_call.stage = "called"
    /\ chunk_call.strategy = "semantic"
    /\ chunk_call' = [chunk_call EXCEPT
          !.stage = "chunked",
          !.chunks = SemanticChunkText(chunk_call.text, chunk_call.chunk_size,
                                       chunk_call.chunk_overlap)]
    /\ UNCHANGED <<orchestrator, query_call, search_call, processor, confidence_call,
                   ingestion, limiter>>

\* HybridChunker(chunk_size, chunk_overlap).chunk_text(text, metadata), with
\* a splitter that cuts every `width' characters
HybridChunk(width) ==
    /\ chunk_call.stage = "called"
    /\ chunk_call.strategy = "hybrid"
    /\ chunk_call' = [chunk_call EXCEPT
          !.stage = "chunked",
          !.semantic_chunks = SemanticChunkText(chunk_call.text, chunk_call.chunk_size,
                                                chunk_call.chunk_overlap),
          !.chunks = HybridChunkText(chunk_call.text, chunk_call.chunk_size,
                                     chunk_call.chunk_overlap, width)]
    /\ UNCHANGED <<orchestrator, query_call, search_call, processor, confidence_call,
                   ingestion, limiter>>

NextChunk ==
    \/ \E width \in 1..chunk_call.chunk_size : RecursiveChunk(width)
    \/ SemanticChunk
    \/ \E width \in 1..chunk_call.chunk_size : HybridChunk(width)

SpecChunk == InitChunk /\ [][NextChunk]_vars

\* ------------------------------------------------------------------------
\* The scoring of a generated answer, exercised on its own
\* ------------------------------------------------------------------------
\* "A " (one token), "a b" (two), "a b c" (three) and " " (none)
ConfidenceQuestions ==
    { <<"A", " ">>, <<"a", " ", "b">>, <<"a", " ", "b", " ", "c">>, <<" ">> }

\* A text of n characters: the word w, then padding with the character ch
Padded(w, ch, n) == [i \in 1..n |-> IF i <= Len(w) THEN w[i] ELSE ch]

\* What the backend answers: short texts, texts of 200 and of 201 characters
\* in one word, and a word followed by whitespace up to 201 characters
Responses ==
    { <<" ", "a">>, <<"b", " ", "A">>, <<"x">>,
      Padded(<<"a", " ">>, "x", 200), Padded(<<"a", " ">>, "x", 201),
      Padded(<<"b">>, " ", 201) }

\* A list of n retrieved chunks
Retrieved(n) ==
    [i \in 1..n |-> [content  |-> PageContent("d2"),
                     metadata |-> [search_type |-> "fallback_basic"]
                                  @@ DocMetadata("d2")]]

InitConfidence ==
    /\ InitOrchestrator(FullWorkload)
    /\ ingestion = NoCall
    /\ limiter = NoCall
    /\ query_call = NoCall
    /\ search_call = NoCall
    /\ processor = NoProcessor
    /\ chunk_call = NoCall
    /\ confidence_call \in [stage : {"generated"}, question : ConfidenceQuestions,
                             relevant_docs : {Retrieved(n) : n \in 1..MaxRetrieved},
                             answer : Responses, returned : {Raise}]

\* _process_query after the backend returned `answer' (lines 198-210): the
\* confidence is computed and the result dict returned, or the division by
\* the number of question words raises
ReturnAnswer ==
    /\ confidence_call.stage = "generated"
    /\ confidence_call' = [confidence_call EXCEPT
          !.stage = "returned",
          !.returned = SuccessAnswer(confidence_call.question,
                                     confidence_call.relevant_docs,
                                     confidence_call.answer, 0)]
    /\ UNCHANGED <<orchestrator, query_call, search_call, processor, chunk_call,
                   ingestion, limiter>>

NextConfidence == ReturnAnswer

SpecConfidence == InitConfidence /\ [][NextConfidence]_vars

\* ------------------------------------------------------------------------
\* Uploads: upload_document (main.py), DocumentProcessor.process_document and
\* EnhancedVectorStore.add_documents, served by concurrent threads that share
\* one DocumentProcessor and one vector store
\* ------------------------------------------------------------------------
SUPPORTED_EXTENSIONS == {".pdf", ".txt", ".md"}

\* The uploaded files: name, extension and the text extract_text returns
UploadFiles ==
    { [filename |-> "a.txt", ext |-> ".txt", text |-> <<"a">>],
      [filename |-> "b.md", ext |-> ".md", text |-> <<"a">>],
      [filename |-> "c.txt", ext |-> ".txt", text |-> <<"a", "\n", "\n", "a">>],
      [filename |-> "d.docx", ext |-> ".docx", text |-> <<"a">>],
      [filename |-> "e.txt", ext |-> ".txt", text |-> <<>>] }

NoFile == [filename |-> "", ext |-> "", text |-> <<>>]

Uploads == 1..MaxUploads

\* validate_file, lines 173-177: the extension test (the file exists and is
\* small)
validate_file(file) == file.ext \in SUPPORTED_EXTENSIONS

\* extract_metadata (lines 229-247), without sizes and times, and line 269
extract_metadata(file) ==
    [filename       |-> file.filename,
     file_extension |-> file.ext]

\* chunk_metadata = metadata.copy(); chunk_metadata.update({...}): every
\* chunk carries the document's metadata beside its own three fields
WithMetadata(chunks, metadata) ==
    [i \in DOMAIN chunks |-> [chunks[i] EXCEPT !.metadata = chunks[i].metadata @@ metadata]]

\* Document(page_content=chunk['content'], metadata=chunk['metadata'])
Document(chunk) == [page_content |-> chunk.content, metadata |-> chunk.metadata]

\* _remove_duplicates (lines 188-202), from the i-th document on
RECURSIVE RemoveDuplicatesLoop(_, _, _, _)
RemoveDuplicatesLoop(documents, i, seen_hashes, unique_docs) ==
    IF i > Len(documents) THEN unique_docs
    ELSE LET doc          == documents[i]
             content_hash == MD5(doc.page_content)
         IN  IF content_hash \notin seen_hashes
             THEN RemoveDuplicatesLoop(
                      documents, i + 1, seen_hashes \cup {content_hash},
                      Append(unique_docs,
                             [doc EXCEPT !.metadata =
                                 [content_hash |-> content_hash] @@ doc.metadata]))
             ELSE RemoveDuplicatesLoop(documents, i + 1, seen_hashes, unique_docs)

_remove_duplicates(documents) == RemoveDuplicatesLoop(documents, 1, {}, <<>>)

InitUpload ==
    /\ InitOrchestrator(FullWorkload)
    /\ query_call = NoCall
    /\ search_call = NoCall
    /\ processor = NoProcessor
    /\ chunk_call = NoCall
    /\ confidence_call = NoCall
    /\ limiter = NoCall
    /\ ingestion \in
          [chunk_size       : ChunkSizes,
           chunk_overlap    : ChunkOverlaps,
           processed_hashes : { {} },
           vectorstore      : { <<>> },
           added_by         : { <<>> },
           pc               : { [u \in Uploads |-> "idle"] },
           file             : { [u \in Uploads |-> NoFile] },
           duplicate        : { [u \in Uploads |-> "none"] },
           chunks           : { [u \in Uploads |-> <<>>] },
           failure          : { [u \in Uploads |-> "none"] },
           status           : { [u \in Uploads |-> 0] }]

\* upload_document up to the membership test of is_duplicate: main.py lines
\* 166-220, process_document lines 252-260, is_duplicate lines 223-225.
\* Uploads are numbered in the order in which they begin.
BeginUpload(u, file) ==
    /\ ingestion.pc[u] = "idle"
    /\ \A b \in Uploads : b < u => ingestion.pc[b] # "idle"
    /\ LET begun == [ingestion EXCEPT !.file[u] = file]
       IN  ingestion' =
             IF ~validate_file(file)
             THEN [begun EXCEPT !.pc[u] = "done", !.status[u] = 400]
             ELSE IF file.text = <<>>
             THEN [begun EXCEPT !.pc[u] = "done", !.status[u] = 500]
             ELSE IF generate_content_hash(file.text) \in ingestion.processed_hashes
             THEN [begun EXCEPT !.pc[u] = "done", !.status[u] = 500,
                                !.duplicate[u] = "yes"]
             ELSE [begun EXCEPT !.pc[u] = "checked"]
    /\ UNCHANGED <<orchestrator, query_call, search_call, processor, chunk_call,
                   confidence_call, limiter>>

\* A processor that records the hash only when chunking has succeeded
RecordAfterChunking(u, raises, width) ==
    /\ ingestion.pc[u] = "checked"
    /\ LET file     == ingestion.file[u]
           metadata == [content_hash |-> generate_content_hash(file.text)]
                           @@ extract_metadata(file)
           chunks   == WithMetadata(HybridChunkText(file.text, ingestion.chunk_size,
                                                    ingestion.chunk_overlap, width),
                                    metadata)
           answered == [ingestion EXCEPT !.duplicate[u] = "no"]
           recorded == [answered EXCEPT
                           !.processed_hashes = @ \cup {generate_content_hash(file.text)}]
       IN  ingestion' =
             IF raises
             THEN [answered EXCEPT !.pc[u] = "done", !.status[u] = 500,
                                   !.failure[u] = "chunking"]
             ELSE IF chunks = <<>>
             THEN [recorded EXCEPT !.pc[u] = "done", !.status[u] = 500]
             ELSE [recorded EXCEPT !.pc[u] = "chunked", !.chunks[u] = chunks]
    /\ UNCHANGED <<orchestrator, query_call, search_call, processor, chunk_call,
                   confidence_call, limiter>>

\* The rest of is_duplicate and of process_document: the hash is recorded
\* and False returned (lines 226-227), then metadata and chunking (lines
\* 267-279), where chunk_text returns or raises; main.py lines 222-232.
RecordAndChunk(u, raises, width) ==
    /\ ingestion.pc[u] = "checked"
    /\ LET file     == ingestion.file[u]
           metadata == [content_hash |-> generate_content_hash(file.text)]
                           @@ extract_metadata(file)
           chunks   == WithMetadata(HybridChunkText(file.text, ingestion.chunk_size,
                                                    ingestion.chunk_overlap, width),
                                    metadata)
           recorded == [ingestion EXCEPT
                           !.duplicate[u] = "no",
                           !.processed_hashes = @ \cup {generate_content_hash(file.text)}]
       IN  ingestion' =
             IF raises
             THEN [recorded EXCEPT !.pc[u] = "done", !.status[u] = 500,
                                   !.failure[u] = "chunking"]
             ELSE IF chunks = <<>>
             THEN [recorded EXCEPT !.pc[u] = "done", !.status[u] = 500]
             ELSE [recorded EXCEPT !.pc[u] = "chunked", !.chunks[u] = chunks]
    /\ UNCHANGED <<orchestrator, query_call, search_call, processor, chunk_call,
                   confidence_call, limiter>>

\* main.py lines 234-278 with add_documents (vector_store_fixed.py lines
\* 56-71): the chunks become Documents, _remove_duplicates, and the store
\* takes them or raises.
AddDocuments(u, raises) ==
    /\ ingestion.pc[u] = "chunked"
    /\ LET documents   == [i \in DOMAIN ingestion.chunks[u] |->
                               Document(ingestion.chunks[u][i])]
           unique_docs == _remove_duplicates(documents)
       IN  ingestion' =
             IF raises
             THEN [ingestion EXCEPT !.pc[u] = "done", !.status[u] = 500,
                                    !.failure[u] = "indexing"]
             ELSE [ingestion EXCEPT
                      !.pc[u] = "done", !.status[u] = 200,
                      !.vectorstore = @ \o unique_docs,
                      !.added_by = @ \o [i \in DOMAIN unique_docs |-> u]]
    /\ UNCHANGED <<orchestrator, query_call, search_call, processor, chunk_call,
                   confidence_call, limiter>>

NextUpload ==
    \/ \E u \in Uploads, file \in UploadFiles : BeginUpload(u, file)
    \/ \E u \in Uploads, raises \in BOOLEAN, width \in 1..ingestion.chunk_size :
          RecordAndChunk(u, raises, width)
    \/ \E u \in Uploads, raises \in BOOLEAN : AddDocuments(u, raises)

SpecUpload == InitUpload /\ [][NextUpload]_vars

\* ------------------------------------------------------------------------
\* Rate limiting: check_rate_limit (main.py), called by concurrent request
\* threads
\* ------------------------------------------------------------------------
\* The client addresses (request.remote_addr)
Addresses == {"10.0.0.1", "10.0.0.2"}

\* limit_per_minute: Config.RATE_LIMIT_PER_MINUTE, a positive number
Limits == {1, 2}

\* The amounts by which the clock moves between two steps of the requests
ClockSteps == {1, RateWindow - 1}

Requests == 1..MaxRequests

InitLimiter ==
    /\ InitOrchestrator(FullWorkload)
    /\ query_call = NoCall
    /\ search_call = NoCall
    /\ processor = NoProcessor
    /\ chunk_call = NoCall
    /\ confidence_call = NoCall
    /\ ingestion = NoCall
    /\ limiter \in
          [limit_per_minute : Limits,
           clock            : {0},
           advances         : {0},
           request_count    : { << >> },
           pc               : { [r \in Requests |-> "idle"] },
           remote_addr      : { [r \in Requests |-> ""] },
           current_time     : { [r \in Requests |-> 0] },
           admitted         : { [r \in Requests |-> FALSE] }]

\* [req_time for req_time in request_count[remote_addr] if req_time > minute_ago]
RecentRequests(times, minute_ago) == SelectSeq(times, LAMBDA req_time : req_time > minute_ago)

\* check_rate_limit, lines 42-43: the request reads the clock, outside the
\* lock.  Requests are numbered in the order in which they read the clock.
ReadClock(r, addr) ==
    /\ limiter.pc[r] = "idle"
    /\ \A b \in Requests : b < r => limiter.pc[b] # "idle"
    /\ limiter' = [limiter EXCEPT !.pc[r] = "timed",
                                  !.remote_addr[r] = addr,
                                  !.current_time[r] = limiter.clock]
    /\ UNCHANGED <<orchestrator, query_call, search_call, processor, chunk_call,
                   confidence_call, ingestion>>

\* check_rate_limit, lines 45-61, under request_lock: old requests are
\* dropped, the count is compared with the limit, the request is recorded
\* if it is admitted.
CheckRateLimit(r) ==
    /\ limiter.pc[r] = "timed"
    /\ LET remote_addr == limiter.remote_addr[r]
           minute_ago  == limiter.current_time[r] - RateWindow
           known       == IF remote_addr \in DOMAIN limiter.request_count
                          THEN limiter.request_count[remote_addr] ELSE <<>>
           recent      == RecentRequests(known, minute_ago)
           admit       == Len(recent) < limiter.limit_per_minute
           kept        == IF admit THEN Append(recent, limiter.current_time[r])
                          ELSE recent
       IN  limiter' = [limiter EXCEPT
                          !.pc[r] = "done",
                          !.admitted[r] = admit,
                          !.request_count = (remote_addr :> kept) @@ @]
    /\ UNCHANGED <<orchestrator, query_call, search_call, processor, chunk_call,
                   confidence_call, ingestion>>

\* time.time() moves on
Advance(d) ==
    /\ limiter.advances < MaxAdvances
    /\ limiter' = [limiter EXCEPT !.clock = @ + d, !.advances = @ + 1]
    /\ UNCHANGED <<orchestrator, query_call, search_call, processor, chunk_call,
                   confidence_call, ingestion>>

NextLimiter ==
    \/ \E r \in Requests, addr \in Addresses : ReadClock(r, addr)
    \/ \E r \in Requests : CheckRateLimit(r)
    \/ \E d \in ClockSteps : Advance(d)

SpecLimiter == InitLimiter /\ [][NextLimiter]_vars

\* ------------------------------------------------------------------------
\* Properties
\* ------------------------------------------------------------------------
HasError(r) == "error" \in DOMAIN r

\* get_response of call c returned what its task returned
Received(c) == pc[c] = "done" /\ hist[c].future_at_return = "finished"

InQueue(queue, c) == \E i \in DOMAIN queue : queue[i] = c

\* C1: a get_response that finds a live (younger than the TTL) cache entry
\* for its key returns it as a hit and submits no task, so neither the index
\* nor the backend is used for it.
C1_LiveEntryIsServed ==
    \A c \in Calls :
        hist[c].live_at_lookup =>
            /\ hist[c].hit_age >= 0
            /\ future[c].state = "none"
            /\ ~hist[c].started

\* C2: no get_response is served a cache entry whose age is at least the TTL;
\* a stale entry, stored or not, is a miss: the query is dispatched.
C2_StaleEntryIsAMiss ==
    \A c \in Calls :
        /\ hist[c].hit_age < CACHE_TTL_SECONDS
        /\ hist[c].stale_at_lookup =>
              /\ hist[c].hit_age = -1
              /\ future[c].state # "none"

C2_StaleLookupDispatched ==
    \E c \in Calls :
        /\ hist[c].stale_at_lookup
        /\ Received(c)
        /\ "cached" \in DOMAIN result[c]
        /\ ~result[c].cached

\* C3: a caller never waits beyond its deadline, and when it returns while
\* its task is still queued or running the result is the timeout result:
\* error "timeout", the fixed apology, no sources.
C3_TimeoutReturnsApology ==
    [][\A c \in Calls :
          /\ pc'[c] = "waiting" => now' <= Deadline(c)'
          /\ (pc[c] = "waiting" /\ pc'[c] = "done"
                /\ future[c].state \in {"pending", "running"}) =>
                /\ IsTimeoutResult(result'[c])
                /\ result'[c].response = TimeoutApology
                /\ result'[c].source_documents = <<>>]_vars

C3_TimedOutWhileRunning ==
    \E c \in Calls :
        /\ TimedOut(c)
        /\ hist[c].future_at_return = "running"
        /\ result[c].response = TimeoutApology
        /\ result[c].source_documents = <<>>

\* C4: once a call has returned the timeout result, that result never
\* changes, and the step in which its abandoned task ends leaves the
\* response cache as it was.
C4_AbandonedCompletionUnobserved ==
    [][\A c \in Calls :
          TimedOut(c) =>
              /\ pc'[c] = "done"
              /\ result'[c] = result[c]
              /\ (task[c].at # "end" /\ task'[c].at = "end") =>
                    response_cache' = response_cache]_vars

C4_AbandonedTaskAnswered ==
    \E c \in Calls :
        /\ TimedOut(c)
        /\ task[c].at = "end"
        /\ hist[c].answered_by > 0

\* C5: at most 3 tasks execute at any time, and every submitted task that
\* is not yet executing is in the pool queue.
C5_AtMostThreeExecuting ==
    /\ Cardinality(Running) <= 3
    /\ \A c \in Calls : future[c].state = "pending" <=> InQueue(work_queue, c)
    /\ \A c \in Running : future[c].state = "running"

C5_PoolFullAndQueued ==
    /\ Cardinality(Running) = 3
    /\ \A c \in Running : task[c].at = "llm"
    /\ work_queue # <<>>

\* C6: a timeout cancels nothing: the step that returns the timeout result
\* leaves the Future, the task and the queue untouched, a queued task of a
\* timed-out call stays queued until a worker starts it, and a running one
\* keeps its worker until it ends.
C6_TimedOutTaskKeepsSlot ==
    [][\A c \in Calls :
          /\ (pc[c] = "waiting" /\ pc'[c] = "done" /\ IsTimeoutResult(result'[c])) =>
                /\ future'[c] = future[c]
                /\ task'[c] = task[c]
                /\ work_queue' = work_queue
          /\ (TimedOut(c) /\ InQueue(work_queue, c)) =>
                (InQueue(work_queue', c) \/ hist'[c].started)
          /\ (TimedOut(c) /\ c \in Running) =>
                (c \in Running' \/ task'[c].at = "end")]_vars

\* All 3 workers held by tasks of timed-out calls, and a call submitted in
\* that situation has timed out with its task never started
C6_PoolStarved ==
    /\ Cardinality(Running) = 3
    /\ \A r \in Running : TimedOut(r)
    /\ \E d \in Calls :
          /\ TimedOut(d)
          /\ hist[d].starved_at_submit
          /\ ~hist[d].started
          /\ InQueue(work_queue, d)

\* C7: at most 3 backend calls per query, one after another, each later one
\* only after the one before it raised; the first text returned is the
\* answer and ends the loop; one pause of at least a second after every
\* failed attempt but the last.
C7_SequentialBoundedRetries ==
    \A c \in Calls :
        LET h == hist[c]
        IN  /\ h.llm_calls <= 3
            /\ h.pauses = Min(h.failures, 2)
            /\ h.paused_ok
            /\ task[c].at = "llm" => (h.llm_calls = h.failures + 1 /\ h.answered_by = 0)
            /\ task[c].at = "sleep" => (h.llm_calls = h.failures /\ h.answered_by = 0)
            /\ task[c].at = "end" =>
                  IF h.answered_by > 0
                  THEN h.answered_by = h.llm_calls /\ h.llm_calls = h.failures + 1
                  ELSE h.llm_calls = h.failures /\ h.failures \in {0, 3}
            /\ (Received(c) /\ h.answered_by > 0) =>
                  result[c].response = [msg |-> "answer", text |-> Strip(h.answer),
                                        err |-> ""]

C7_ThirdAttemptAnswers ==
    \E c \in Calls :
        /\ Received(c)
        /\ hist[c].failures = 2
        /\ hist[c].pauses = 2
        /\ hist[c].answered_by = 3

\* C8 as claimed: after 3 failed attempts the caller that is still waiting
\* gets an answer with no error tag, confidence 0.5 and all retrieved chunks
\* as sources.
C8_DegradedCarriesAllSources ==
    \A c \in Calls :
        (hist[c].failures = 3 /\ Received(c)) =>
            /\ ~HasError(result[c])
            /\ result[c].confidence = 500
            /\ Len(result[c].source_documents) = Len(hist[c].retrieved)

\* C8 as amended: after 3 failed attempts the task returns (it does not
\* raise), and the caller that is still waiting gets an answer with no error
\* tag, confidence 0.5 and the first 3 (or fewer) retrieved chunks, in
\* retrieval order, as sources.
C8_DegradedCarriesFirstThree ==
    \A c \in Calls :
        /\ hist[c].failures = 3 => (task[c].at = "end" /\ future[c].state = "finished")
        /\ (hist[c].failures = 3 /\ Received(c)) =>
              LET src == result[c].source_documents
                  docs == hist[c].retrieved
              IN  /\ ~HasError(result[c])
                  /\ result[c].confidence = 500
                  /\ Len(src) = Min(3, Len(docs))
                  /\ \A i \in DOMAIN src :
                        /\ src[i].content.doc = docs[i].content.doc
                        /\ src[i].metadata = docs[i].metadata

C8_DegradedWithManySources ==
    \E c \in Calls :
        /\ hist[c].failures = 3
        /\ Received(c)
        /\ Len(hist[c].retrieved) > 3

\* C9: a query whose retrieval returned nothing never calls the backend;
\* its task returns at once, and the result has confidence 0.0, no sources,
\* a message and no error tag.
C9_EmptyRetrievalShortCircuits ==
    \A c \in Calls :
        (hist[c].started /\ hist[c].retrieved = <<>>) =>
            /\ hist[c].llm_calls = 0
            /\ task[c].at = "end"
            /\ future[c].state = "finished"
            /\ pc[c] = "waiting" =>
                  /\ ~HasError(future[c].result)
                  /\ future[c].result.confidence = 0
                  /\ future[c].result.source_documents = <<>>
                  /\ future[c].result.response = NoInfoMessage
            /\ Received(c) =>
                  /\ ~HasError(result[c])
                  /\ result[c].confidence = 0
                  /\ result[c].source_documents = <<>>
                  /\ result[c].response.msg # ""
                  /\ result[c].response = NoInfoMessage

C9_RankedSearchFoundNothing ==
    \E c \in Calls :
        /\ hist[c].started
        /\ ~hist[c].ranked_raised
        /\ hist[c].retrieved = <<>>
        /\ Received(c)

\* C10: a failure inside similarity_search never reaches the orchestrator:
\* a task raises only after the backend has answered; when the ranked path
\* raised the result is that of the unranked search, cut to k and tagged;
\* when that raised too the result is empty and the caller gets the
\* empty-result answer without an error tag.
C10_RetrievalFailureDegrades ==
    \A c \in Calls :
        hist[c].started =>
            LET h    == hist[c]
                docs == h.retrieved
            IN  /\ future[c].state = "raised" => h.answered_by > 0
                /\ (~h.idx.scored.raised /\ Words(Lower(args[c].question)) # {}) =>
                      ~h.ranked_raised
                /\ (h.ranked_raised /\ ~h.idx.basic.raised) =>
                      /\ Len(docs) = Min(TOP_K, Len(h.idx.basic.val))
                      /\ \A i \in DOMAIN docs :
                            /\ docs[i].content.doc = h.idx.basic.val[i]
                            /\ docs[i].metadata.search_type = "fallback_basic"
                /\ (h.ranked_raised /\ h.idx.basic.raised) =>
                      /\ docs = <<>>
                      /\ future[c].state = "finished"
                      /\ Received(c) =>
                            /\ ~HasError(result[c])
                            /\ result[c].confidence = 0
                            /\ result[c].response = NoInfoMessage

C10_BothSearchesRaised ==
    \E c \in Calls :
        /\ hist[c].ranked_raised
        /\ hist[c].idx.basic.raised
        /\ Received(c)

\* The query, lowercased, has one of the comparison terms somewhere in it
HasComparisonTerm(query) ==
    \E term \in ComparisonTerms :
        \E i \in 1..(Len(query) - Len(term) + 1) :
            \A n \in 1..Len(term) : LowerCh(query[i + n - 1]) = term[n]

TokenCount(query) == Len(Split(query))

\* C16 (as claimed): whatever the base threshold, a query with a comparison
\* term gets a threshold strictly below the base, which is what a query of
\* more than 3 tokens without such a term gets; no adjustment leaves the
\* threshold at or above the base.
C16_AdjustmentAlwaysLowers ==
    (query_call.stage = "called" /\ query_call.adapted) =>
        LET q == query_call.query
            b == query_call.base_threshold
        IN  /\ (~HasComparisonTerm(q) /\ TokenCount(q) > 3)
                  => query_call.adjusted_threshold = b
            /\ (HasComparisonTerm(q) \/ TokenCount(q) <= 3)
                  => query_call.adjusted_threshold < b

\* C16 (amended): for a base threshold above 0.10, a query with a comparison
\* term gets a threshold strictly below the base, which is what a query of
\* more than 3 tokens without such a term gets; a short query without such a
\* term gets a threshold strictly below the base too.  At a base of 0.10 or
\* less the comparison rule returns its floor 0.10, at or above the base.
C16_AdjustmentLowersAboveFloor ==
    (query_call.stage = "called" /\ query_call.adapted) =>
        LET q == query_call.query
            b == query_call.base_threshold
        IN  /\ (~HasComparisonTerm(q) /\ TokenCount(q) > 3)
                  => query_call.adjusted_threshold = b
            /\ (b > 100 /\ (HasComparisonTerm(q) \/ TokenCount(q) <= 3))
                  => query_call.adjusted_threshold < b
            /\ (b <= 100 /\ HasComparisonTerm(q))
                  => query_call.adjusted_threshold = 100

\* "NHD vs USGS"-like query at the default base: the threshold is lowered
C16_ComparisonQueryLowered ==
    /\ query_call.stage = "called" /\ query_call.adapted
    /\ query_call.query = NHD \o <<" ">> \o <<"v", "s">>
    /\ query_call.base_threshold = BaseThreshold
    /\ query_call.adjusted_threshold = 100

\* C17: at most one adjustment, the comparison rule first: with a comparison
\* term the threshold is max(0.10, base - 0.05) whatever the token count;
\* otherwise with at most 3 tokens it is max(0.05, base - 0.10); otherwise it
\* is the base.
C17_ComparisonRuleFirst ==
    (query_call.stage = "called" /\ query_call.adapted) =>
        LET q == query_call.query
            b == query_call.base_threshold
            t == query_call.adjusted_threshold
        IN  IF HasComparisonTerm(q) THEN t = Max(100, b - 50)
            ELSE IF TokenCount(q) <= 3 THEN t = Max(50, b - 100)
            ELSE t = b

\* A short comparison query that did not get the short-query reduction
C17_ShortComparisonQuery ==
    /\ query_call.stage = "called" /\ query_call.adapted
    /\ HasComparisonTerm(query_call.query)
    /\ TokenCount(query_call.query) <= 3
    /\ query_call.base_threshold = 300
    /\ query_call.adjusted_threshold = 250

\* C18: normalizing a normalized query changes nothing:
\* _preprocess_query(_preprocess_query(q)) = _preprocess_query(q).
C18_PreprocessIdempotent ==
    (query_call.stage = "called") =>
        \A n \in 2..Len(query_call.texts) :
            query_call.texts[n] = query_call.texts[n - 1]

\* A query with two abbreviations and untidy whitespace was normalized twice,
\* and the first pass appended both expansions
C18_TwoAbbreviationsExpandedOnce ==
    /\ query_call.stage = "called"
    /\ Len(query_call.texts) >= 2
    /\ query_call.query = NHD \o <<"\n">> \o GIS
    /\ query_call.texts[1] = NHD \o <<" ">> \o GIS \o <<" ">>
                                \o NationalHydrographyDataset \o <<" ">>
                                \o GeographicInformationSystem

\* The candidates handed to the ranking loop of the search of search_call
SearchCandidates ==
    IF search_call.idx.scored.raised THEN <<>>
    ELSE FirstN(search_call.idx.scored.val, Min(2 * search_call.k, 20))

SearchAdjusted ==
    _get_adaptive_threshold(search_call.query, search_call.threshold)

\* The chunks named in a list of result dicts or context entries
DocsOf(list) == {list[i].content.doc : i \in DOMAIN list}

\* The fused relevance of the j-th candidate for the query of search_call
CandidateRelevance(j) ==
    _calculate_enhanced_relevance(search_call.query, SearchCandidates[j].doc,
                                  search_call.similarities[j]).val

\* C11: when the ranked search raises, similarity_search returns the unranked
\* search capped at k with every result tagged 'fallback_basic'; every
\* result of a ranked search that did not raise is tagged 'optimized_semantic'.
C11_FallbackResultsTagged ==
    (search_call.stage \in {"searched", "assembled"}) =>
        LET c   == search_call
            out == c.relevant_docs
        IN  /\ c.idx.scored.raised => c.ranked_raised
            /\ IF c.ranked_raised
               THEN /\ Len(out) <= c.k
                    /\ \A i \in DOMAIN out :
                          /\ out[i].metadata.search_type = "fallback_basic"
                          /\ "relevance_score" \notin DOMAIN out[i].metadata
                    /\ IF c.idx.basic.raised THEN out = <<>>
                       ELSE /\ Len(out) = Min(c.k, Len(c.idx.basic.val))
                            /\ \A i \in DOMAIN out :
                                  out[i].content = PageContent(c.idx.basic.val[i])
               ELSE \A i \in DOMAIN out :
                       out[i].metadata.search_type = "optimized_semantic"

\* The ranked search raised with more than k chunks in the index: the
\* fallback returned k tagged chunks
C11_FallbackCappedAtK ==
    /\ search_call.stage = "searched"
    /\ search_call.ranked_raised
    /\ ~search_call.idx.scored.raised
    /\ ~search_call.idx.basic.raised
    /\ Len(search_call.idx.basic.val) > search_call.k
    /\ Len(search_call.relevant_docs) = search_call.k
    /\ search_call.relevant_docs[1].metadata.search_type = "fallback_basic"

\* C12: the list returned by the ranked path has at most k entries, is in
\* non-increasing order of relevance_score and holds no candidate whose
\* similarity is below the adaptive threshold; every dropped candidate is
\* below that threshold or ranked after the k-th survivor.
C12_RankedListFilteredSortedCapped ==
    (search_call.stage \in {"searched", "assembled"} /\ ~search_call.ranked_raised) =>
        LET c     == search_call
            out   == c.relevant_docs
            cands == SearchCandidates
        IN  /\ Len(out) <= c.k
            /\ \A i \in 1..(Len(out) - 1) :
                  out[i].metadata.relevance_score >= out[i + 1].metadata.relevance_score
            /\ \A i \in DOMAIN out :
                  \E j \in DOMAIN cands :
                      /\ cands[j].doc = out[i].content.doc
                      /\ c.similarities[j] >= SearchAdjusted
            /\ \A j \in DOMAIN cands :
                  cands[j].doc \notin DocsOf(out) =>
                      \/ c.similarities[j] < SearchAdjusted
                      \/ /\ Len(out) = c.k
                         /\ CandidateRelevance(j) <= out[c.k].metadata.relevance_score

\* A ranked search that dropped one candidate for the threshold and another
\* for the cap, and whose order is not the candidate order
C12_FilteredReorderedAndCapped ==
    /\ search_call.stage = "searched"
    /\ ~search_call.ranked_raised
    /\ Len(search_call.relevant_docs) = search_call.k
    /\ search_call.k > 1
    /\ \E j \in DOMAIN SearchCandidates :
          /\ SearchCandidates[j].doc \notin DocsOf(search_call.relevant_docs)
          /\ search_call.similarities[j] < SearchAdjusted
    /\ \E j \in DOMAIN SearchCandidates :
          /\ SearchCandidates[j].doc \notin DocsOf(search_call.relevant_docs)
          /\ search_call.similarities[j] >= SearchAdjusted
    /\ \E i \in DOMAIN search_call.relevant_docs, j1, j2 \in DOMAIN SearchCandidates :
          /\ i < Len(search_call.relevant_docs)
          /\ SearchCandidates[j1].doc = search_call.relevant_docs[i].content.doc
          /\ SearchCandidates[j2].doc = search_call.relevant_docs[i + 1].content.doc
          /\ j1 > j2

\* C14: for every distance (negative, in [0,1], above 1) and every query
\* with at least one token, the relevance_score attached to a result lies in
\* [0,1].
C14_RelevanceWithinUnitInterval ==
    (search_call.stage \in {"searched", "assembled"} /\ ~search_call.ranked_raised) =>
        \A i \in DOMAIN search_call.relevant_docs :
            /\ search_call.relevant_docs[i].metadata.relevance_score >= 0
            /\ search_call.relevant_docs[i].metadata.relevance_score <= 1000

\* A ranked result list with a chunk at a negative distance, whose fused score
\* was clamped to 1, and a chunk at a distance above 1
C14_NegativeAndLargeDistancesRanked ==
    /\ search_call.stage = "searched"
    /\ ~search_call.ranked_raised
    /\ Words(Lower(search_call.query)) # {}
    /\ \E i \in DOMAIN search_call.relevant_docs, j \in DOMAIN SearchCandidates :
          /\ SearchCandidates[j].doc = search_call.relevant_docs[i].content.doc
          /\ SearchCandidates[j].score < 0
          /\ search_call.relevant_docs[i].metadata.relevance_score = 1000
    /\ \E i \in DOMAIN search_call.relevant_docs, j \in DOMAIN SearchCandidates :
          /\ SearchCandidates[j].doc = search_call.relevant_docs[i].content.doc
          /\ SearchCandidates[j].score > 1000

\* C15: for every distance the index returns, the conversion to a similarity
\* (1 - distance up to 1, 1 / (1 + distance) above) gives a value in [0,1].
C15_SimilarityWithinUnitInterval ==
    (search_call.stage \in {"searched", "assembled"}) =>
        \A j \in DOMAIN search_call.similarities :
            /\ search_call.similarities[j] >= 0
            /\ search_call.similarities[j] <= 1000

\* The characters of the first n retrieved chunks
RECURSIVE RetrievedChars(_)
RetrievedChars(n) ==
    IF n = 0 THEN 0
    ELSE search_call.relevant_docs[n].content.len + RetrievedChars(n - 1)

RECURSIVE ContextChars(_)
ContextChars(n) ==
    IF n = 0 THEN 0
    ELSE search_call.contexts[n].content.len + Len(search_call.contexts[n].content.tail)
            + ContextChars(n - 1)

\* The context holds the k best, by fused relevance, of the candidates whose
\* relevance is at least th, in descending order, as far as they fit
ContextIsTopKAtLeast(th) ==
    LET c     == search_call
        ctx   == c.contexts
        cands == SearchCandidates
        rel(d) == CandidateRelevance(CHOOSE j \in DOMAIN cands : cands[j].doc = d)
    IN  /\ Len(ctx) <= c.k
        /\ \A i \in DOMAIN ctx : rel(ctx[i].content.doc) >= th
        /\ \A i \in 1..(Len(ctx) - 1) :
              rel(ctx[i].content.doc) >= rel(ctx[i + 1].content.doc)
        /\ \A j \in DOMAIN cands :
              (CandidateRelevance(j) >= th /\ cands[j].doc \notin DocsOf(ctx)) =>
                  \/ /\ Len(ctx) = c.k
                     /\ \A i \in DOMAIN ctx :
                           rel(ctx[i].content.doc) >= CandidateRelevance(j)
                  \/ ContextChars(Len(ctx)) + DocLen(cands[j].doc) > max_context_chars

\* C13 (as claimed): the assembled context holds exactly the k highest-scoring
\* chunks among the candidates whose relevance score is at least the
\* threshold (the threshold passed, or else the adaptive one), in descending
\* score order, as long as they fit the character budget.
C13_ContextIsTopKByRelevance ==
    (/\ search_call.stage = "assembled"
     /\ ~search_call.ranked_raised
     /\ Words(Lower(search_call.query)) # {}) =>
        \/ ContextIsTopKAtLeast(search_call.threshold)
        \/ ContextIsTopKAtLeast(SearchAdjusted)

\* C13 (amended): when the ranked search does not raise, the assembled context
\* holds, in descending relevance-score order, the first k of the candidates
\* whose similarity (not whose fused relevance) is at least the adaptive
\* threshold of the query, each in full while the total stays within 3000
\* characters; the first chunk that would overflow is cut to the remaining
\* room if more than 200 characters remain, and nothing follows it.
C13_ContextIsTopKBySimilarity ==
    (/\ search_call.stage = "assembled"
     /\ ~search_call.ranked_raised
     /\ Words(Lower(search_call.query)) # {}) =>
        LET c     == search_call
            ctx   == c.contexts
            out   == c.relevant_docs
            cands == SearchCandidates
        IN  /\ Len(ctx) <= Len(out) /\ Len(out) <= c.k
            /\ \A i \in DOMAIN out :
                  \E j \in DOMAIN cands :
                      /\ cands[j].doc = out[i].content.doc
                      /\ c.similarities[j] >= SearchAdjusted
                      /\ out[i].metadata.relevance_score = CandidateRelevance(j)
            /\ \A i \in 1..(Len(out) - 1) :
                  out[i].metadata.relevance_score >= out[i + 1].metadata.relevance_score
            /\ \A j \in DOMAIN cands :
                  (c.similarities[j] >= SearchAdjusted /\ cands[j].doc \notin DocsOf(out)) =>
                      /\ Len(out) = c.k
                      /\ CandidateRelevance(j) <= out[c.k].metadata.relevance_score
            /\ \A i \in DOMAIN ctx :
                  /\ ctx[i].source = i
                  /\ ctx[i].content.doc = out[i].content.doc
                  /\ IF RetrievedChars(i) <= max_context_chars
                     THEN ctx[i].content = out[i].content
                     ELSE /\ i = Len(ctx)
                          /\ max_context_chars - RetrievedChars(i - 1) > MinTruncatedChars
                          /\ ctx[i].content.tail = "..."
                          /\ ContextChars(i) <= max_context_chars
            /\ Len(ctx) < Len(out) =>
                  \/ RetrievedChars(Len(ctx)) > max_context_chars
                  \/ /\ RetrievedChars(Len(ctx) + 1) > max_context_chars
                     /\ max_context_chars - RetrievedChars(Len(ctx)) <= MinTruncatedChars

\* A context of several ranked chunks whose last one was cut to the budget,
\* with later chunks left out
C13_ContextCutAtBudget ==
    /\ search_call.stage = "assembled"
    /\ ~search_call.ranked_raised
    /\ Len(search_call.contexts) > 2
    /\ Len(search_call.contexts) < Len(search_call.relevant_docs)
    /\ search_call.contexts[Len(search_call.contexts)].content.tail = "..."

\* C19: over any sequence of is_duplicate calls on one DocumentProcessor, a
\* call returns false exactly when its content was not passed before, and
\* the recorded hashes are those of the contents seen so far.
C19_FalseOncePerContent ==
    /\ \A n \in DOMAIN processor.calls :
          processor.calls[n].returned =
              (\E m \in 1..(n - 1) : processor.calls[m].content = processor.calls[n].content)
    /\ processor.processed_hashes =
          {SHA256(processor.calls[n].content) : n \in DOMAIN processor.calls}

\* The same content three times, another content in between
C19_RepeatedContentSeen ==
    /\ Len(processor.calls) = 4
    /\ processor.calls[1] = [content |-> <<"a">>, returned |-> FALSE]
    /\ processor.calls[2] = [content |-> <<"a">>, returned |-> TRUE]
    /\ processor.calls[3] = [content |-> <<"a", " ">>, returned |-> FALSE]
    /\ processor.calls[4] = [content |-> <<"a">>, returned |-> TRUE]

\* C20: HybridChunker never emits a chunk longer than 1.5 x chunk_size: a
\* semantic chunk above that length is replaced by recursive pieces of at
\* most chunk_size characters, every other semantic chunk is kept as it is.
C20_HybridChunksBounded ==
    (chunk_call.stage = "chunked" /\ chunk_call.strategy = "hybrid") =>
        LET size     == chunk_call.chunk_size
            semantic == chunk_call.semantic_chunks
            final    == chunk_call.chunks
            kept     == {n \in DOMAIN semantic : 2 * Len(semantic[n].content) <= 3 * size}
        IN  /\ \A i \in DOMAIN final :
                  /\ 2 * Len(final[i].content) <= 3 * size
                  /\ final[i].metadata.chunking_strategy = "hybrid"
                  /\ \/ Len(final[i].content) <= size
                     \/ \E n \in kept : final[i].content = semantic[n].content
            /\ \A n \in kept :
                  \E i \in DOMAIN final :
                      /\ final[i].content = semantic[n].content
                      /\ final[i].chunk_id = semantic[n].chunk_id

\* A text whose first semantic chunk was kept and whose second one, grown
\* past 1.5 x chunk_size by the overlap, was replaced by recursive pieces
C20_OversizedChunkResplit ==
    /\ chunk_call.stage = "chunked"
    /\ chunk_call.strategy = "hybrid"
    /\ Len(chunk_call.semantic_chunks) = 2
    /\ 2 * Len(chunk_call.semantic_chunks[1].content) <= 3 * chunk_call.chunk_size
    /\ 2 * Len(chunk_call.semantic_chunks[2].content) > 3 * chunk_call.chunk_size
    /\ Len(chunk_call.chunks) > 2
    /\ chunk_call.chunks[1].content = chunk_call.semantic_chunks[1].content

\* C21: for every chunking strategy the chunk_index values of the emitted
\* chunks, in emission order, are 0, 1, 2, ...: the n-th chunk emitted for a
\* document carries chunk_index n - 1, also where the hybrid chunker re-split
\* an oversized semantic chunk.
C21_ChunkIndexCountsEmission ==
    (chunk_call.stage = "chunked") =>
        \A n \in DOMAIN chunk_call.chunks :
            chunk_call.chunks[n].metadata.chunk_index = n - 1

\* paragraphs[a] + "\n\n" + ... + paragraphs[b]
RECURSIVE JoinParagraphs(_, _, _)
JoinParagraphs(paragraphs, a, b) ==
    IF a > b THEN <<>>
    ELSE IF a = b THEN paragraphs[a]
    ELSE paragraphs[a] \o <<"\n", "\n">> \o JoinParagraphs(paragraphs, a + 1, b)

EndsWith(text, suffix) ==
    /\ Len(suffix) <= Len(text)
    /\ SubSeq(text, Len(text) - Len(suffix) + 1, Len(text)) = suffix

\* C22: SemanticChunker puts every non-empty paragraph whole, in input order,
\* into a chunk: the chunks end with consecutive runs of paragraphs that
\* together are all the paragraphs (what precedes a run in its chunk is
\* overlap); the last chunk ends with the last paragraph; a text without a
\* non-empty paragraph (empty or whitespace only) gives no chunk.
C22_ParagraphsCoveredInOrder ==
    (chunk_call.stage = "chunked" /\ chunk_call.strategy = "semantic") =>
        LET paragraphs == Paragraphs(chunk_call.text)
            chunks     == chunk_call.chunks
        IN  /\ (\A i \in DOMAIN chunk_call.text : IsSpace(chunk_call.text[i]))
                  => chunks = <<>>
            /\ (\E i \in DOMAIN chunk_call.text : ~IsSpace(chunk_call.text[i]))
                  => \E last \in [DOMAIN chunks -> DOMAIN paragraphs] :
                        /\ chunks # <<>>
                        /\ last[Len(chunks)] = Len(paragraphs)
                        /\ \A n \in DOMAIN chunks :
                              LET first == IF n = 1 THEN 1 ELSE last[n - 1] + 1
                              IN  /\ first <= last[n]
                                  /\ EndsWith(chunks[n].content,
                                              JoinParagraphs(paragraphs, first, last[n]))

\* Two paragraphs that did not fit one chunk: the second chunk holds the
\* overlap and the second paragraph
C22_SecondChunkCarriesOverlap ==
    /\ chunk_call.stage = "chunked"
    /\ chunk_call.strategy = "semantic"
    /\ chunk_call.chunk_overlap = 1
    /\ Len(Paragraphs(chunk_call.text)) = 2
    /\ Len(chunk_call.chunks) = 2
    /\ Len(chunk_call.chunks[2].content) > Len(Paragraphs(chunk_call.text)[2])

\* C23: the chunks of the assembled context are retrieved chunks in rank
\* order, each under its rank as source index and each a prefix of its chunk,
\* and the characters of their contents, the "..." of a truncated last chunk
\* included, never exceed the budget of 3000.
C23_ContextInRankOrderWithinBudget ==
    (search_call.stage = "assembled") =>
        LET ctx == search_call.contexts
            out == search_call.relevant_docs
        IN  /\ ContextChars(Len(ctx)) <= 3000
            /\ \A i \in DOMAIN ctx :
                  /\ ctx[i].source \in DOMAIN out
                  /\ ctx[i].content.doc = out[ctx[i].source].content.doc
                  /\ ctx[i].content.len <= out[ctx[i].source].content.len
                  /\ ctx[i].content.tail = "" => ctx[i].content = out[ctx[i].source].content
            /\ \A i \in 1..(Len(ctx) - 1) : ctx[i].source < ctx[i + 1].source

\* A context of several chunks filled to the last character by a hard cut
C23_ContextFilledToBudget ==
    /\ search_call.stage = "assembled"
    /\ Len(search_call.contexts) > 1
    /\ search_call.contexts[Len(search_call.contexts)].content.tail = "..."
    /\ ContextChars(Len(search_call.contexts)) = 3000

\* The rank of the first retrieved chunk that does not fit the budget whole
\* (0: every chunk fits)
FirstOverflow ==
    LET over == {i \in DOMAIN search_call.relevant_docs :
                    RetrievedChars(i) > max_context_chars}
    IN  IF over = {} THEN 0 ELSE CHOOSE i \in over : \A j \in over : i <= j

\* The length of the first n sentences of chunk d, each with its ". "
RECURSIVE SentenceChars(_, _)
SentenceChars(d, n) ==
    IF n = 0 THEN 0 ELSE DocSentences(d)[n] + 2 + SentenceChars(d, n - 1)

\* piece is chunk d cut for a room of `room' characters: whole sentences as
\* long as they fit with the "...", or a hard cut when not even one does
IsTruncationOf(piece, d, room) ==
    /\ piece.doc = d
    /\ piece.tail = "..."
    /\ IF SentenceChars(d, 1) <= room - 3
       THEN \E n \in DOMAIN DocSentences(d) :
               /\ piece.len = SentenceChars(d, n) - 1
               /\ SentenceChars(d, n) <= room - 3
               /\ n < Len(DocSentences(d)) => SentenceChars(d, n + 1) > room - 3
       ELSE piece.len = room - 3

\* C24 (as claimed): whenever a retrieved chunk does not fit the remaining
\* budget, it is in the context in truncated form, ending with "...", as the
\* last entry.
C24_OverflowingChunkAlwaysTruncated ==
    (search_call.stage = "assembled" /\ FirstOverflow > 0) =>
        LET ctx == search_call.contexts
            i   == FirstOverflow
        IN  /\ Len(ctx) = i
            /\ IsTruncationOf(ctx[i].content, search_call.relevant_docs[i].content.doc,
                              max_context_chars - RetrievedChars(i - 1))

\* C24 (amended): when a retrieved chunk does not fit the remaining budget,
\* no chunk ranked after it is in the context; it is itself in the context,
\* truncated and ending with "...", as the last entry if more than 200
\* characters of budget remain, and left out otherwise.
C24_OverflowingChunkEndsAssembly ==
    (search_call.stage = "assembled" /\ FirstOverflow > 0) =>
        LET ctx  == search_call.contexts
            i    == FirstOverflow
            room == max_context_chars - RetrievedChars(i - 1)
        IN  /\ \A n \in DOMAIN ctx : ctx[n].source <= i
            /\ \A n \in DOMAIN ctx : ctx[n].source < i => ctx[n].content.tail = ""
            /\ IF room > 200
               THEN /\ Len(ctx) = i
                    /\ IsTruncationOf(ctx[i].content,
                                      search_call.relevant_docs[i].content.doc, room)
               ELSE Len(ctx) = i - 1

\* A chunk cut after its second sentence, with a later chunk left out that
\* would have fitted the room that remains
C24_CutAtSentenceAndStopped ==
    /\ search_call.stage = "assembled"
    /\ FirstOverflow > 0
    /\ Len(search_call.contexts) = FirstOverflow
    /\ search_call.contexts[FirstOverflow].content.len = SentenceChars("d5", 2) - 1
    /\ \E j \in DOMAIN search_call.relevant_docs :
          /\ j > FirstOverflow
          /\ ContextChars(Len(search_call.contexts))
                + search_call.relevant_docs[j].content.len <= max_context_chars

\* C25: for a question with at least one token, a non-empty list of retrieved
\* chunks and any generated text, the task returns a result whose confidence
\* is min(1.0, retrieved_count / 7 + (0.1 if the text has more than 200
\* characters) + 0.2 x the share of question tokens found in the text), a
\* value in [0,1]; the length is that of the text as generated.
C25_ConfidenceFormula ==
    (/\ confidence_call.stage = "returned"
     /\ Words(Lower(confidence_call.question)) # {}) =>
        LET question_tokens == Words(Lower(confidence_call.question))
            response_tokens == Words(Lower(confidence_call.answer))
            retrieved_count == Len(confidence_call.relevant_docs)
            sum == (1000 * retrieved_count) \div 7
                     + (IF Len(confidence_call.answer) > 200 THEN 100 ELSE 0)
                     + (200 * Cardinality(question_tokens \cap response_tokens))
                           \div Cardinality(question_tokens)
        IN  /\ ~confidence_call.returned.raised
            /\ confidence_call.returned.val.confidence = Min(1000, sum)
            /\ confidence_call.returned.val.confidence >= 0
            /\ confidence_call.returned.val.confidence <= 1000

\* Three chunks, an answer of 201 characters with one of the two question
\* tokens: 3/7 + 0.1 + 0.1
C25_LongAnswerHalfOverlap ==
    /\ confidence_call.stage = "returned"
    /\ confidence_call.question = <<"a", " ", "b">>
    /\ Len(confidence_call.relevant_docs) = 3
    /\ Len(confidence_call.answer) = 201
    /\ ~confidence_call.returned.raised
    /\ confidence_call.returned.val.confidence = 628

\* C26: every result returned by get_response, on every path, carries a
\* response text, a source list, a confidence in [0,1] and a processing time.
C26_EveryResultWellFormed ==
    \A c \in Calls :
        (pc[c] = "done") =>
            /\ {"response", "source_documents", "confidence", "processing_time"}
                   \subseteq DOMAIN result[c]
            /\ result[c].confidence >= 0
            /\ result[c].confidence <= 1000

\* The messages of the exceptions raised inside the service
ExceptionMessages ==
    {ZeroDivisionError} \cup {o.err : o \in {x \in workload.llm : x.raised}}

\* C27: no result exposes internal detail: an error field is a stable code,
\* never the message of the exception, and the response text of every
\* result, the degraded answer included, is free of exception messages.
C27_NoExceptionMessageExposed ==
    \A c \in Calls :
        (pc[c] = "done") =>
            /\ HasError(result[c]) => result[c].error \notin ExceptionMessages
            /\ result[c].response.err \notin ExceptionMessages

\* The calls whose generation succeeded: the backend returned a text
GenerationSucceeded == {c \in Calls : hist[c].answered_by > 0}

\* C28: the conversation window holds the (question, answer) pairs of the
\* queries whose generation succeeded, the last 5 of them at most; failed,
\* timed-out and empty-result queries add nothing.
C28_SuccessfulTurnsRemembered ==
    /\ Len(conversation_memory) = Min(Cardinality(GenerationSucceeded), 5)
    /\ \A i \in DOMAIN conversation_memory :
          \E c \in GenerationSucceeded :
              conversation_memory[i] = [question |-> args[c].question,
                                        answer   |-> hist[c].answer]

\* C29: every entry of the response cache holds the result of a query whose
\* generation succeeded: a generated answer, never the empty-result answer,
\* the degraded answer, a timeout result or an error result.
C29_OnlySuccessfulAnswersCached ==
    \A key \in DOMAIN response_cache :
        /\ ~HasError(response_cache[key].response)
        /\ response_cache[key].response.response.msg = "answer"

\* C30: every step in which a query stores into the shared response cache
\* or changes the conversation window is taken while the query holds the
\* lock of that structure.
C30_SharedStateAccessedUnderLock ==
    [][\A c \in Calls :
          /\ (pc[c] = "waiting" /\ pc'[c] = "done"
                /\ response_cache' # response_cache)
                => "response_cache" \in LocksHeld(c)
          /\ (pc[c] # pc'[c] /\ conversation_memory' # conversation_memory)
                => "conversation_memory" \in LocksHeld(c)]_vars

\* The kinds of result get_response returns
ResultKind(r) ==
    IF HasError(r) THEN (IF IsTimeoutResult(r) THEN "timeout" ELSE "error")
    ELSE CASE r.response.msg = "answer"                     -> "answer"
           [] r.response.msg = "no_relevant_information"    -> "empty"
           [] r.response.msg = "found_documents_but_issue"  -> "degraded"
           [] OTHER                                         -> "other"

\* C31: a query moves forward only (cache check and dispatch, retrieval,
\* generation, cache write, done); the backend is called only after retrieval
\* produced at least one chunk; the cache is written only by a caller whose
\* task returned within the timeout; a call that has returned has exactly
\* one result, of one of the five kinds, which never changes, and no call
\* ends otherwise; and every dispatched call eventually returns.
C31_EveryQueryEndsWithOneResult ==
    /\ [][\A c \in Calls :
             /\ pc[c] # pc'[c] =>
                   <<pc[c], pc'[c]>> \in {<<"idle", "waiting">>, <<"idle", "done">>,
                                          <<"waiting", "done">>}
             /\ task[c].at # task'[c].at =>
                   /\ <<task[c].at, task'[c].at>> \in
                         {<<"none", "llm">>, <<"none", "end">>, <<"llm", "sleep">>,
                          <<"sleep", "llm">>, <<"llm", "end">>}
                   /\ pc[c] # "idle"
             /\ task'[c].at = "llm" => hist'[c].retrieved # <<>>
             /\ hist'[c].llm_calls > 0 => hist'[c].retrieved # <<>>
             /\ (pc[c] # "done" /\ pc'[c] = "done") =>
                   ResultKind(result'[c]) \in
                       {"answer", "empty", "degraded", "timeout", "error"}
             /\ (pc[c] = "done") => (pc'[c] = "done" /\ result'[c] = result[c])
             /\ (pc'[c] # "done") => (result'[c] = NoResult)
          ]_vars
    /\ [][response_cache' # response_cache =>
             \E c \in Calls :
                 /\ pc[c] = "waiting" /\ pc'[c] = "done"
                 /\ task[c].at = "end"
                 /\ future[c].state = "finished"
                 /\ now <= Deadline(c)]_vars
    /\ \A c \in 1..MaxCalls : (pc[c] = "waiting") ~> (pc[c] = "done")

C31_GeneratedAnswerReturnedAndStored ==
    \E c \in Calls :
        /\ Received(c)
        /\ task[c].at = "end"
        /\ hist[c].retrieved # <<>>
        /\ ResultKind(result[c]) = "answer"
        /\ _generate_cache_key(args[c].question) \in DOMAIN response_cache

\* C35: the step in which a call ends with the timeout result or with the
\* generic error result leaves the response cache as it was; every step that
\* changes the cache is the return of a call whose task returned a result,
\* and stores that call's result under that call's key; so no entry of the
\* cache ever holds a timeout or error result.
C35_TimeoutAndErrorLeaveCacheUnchanged ==
    /\ [][\A c \in Calls :
             (pc[c] = "waiting" /\ pc'[c] = "done" /\ HasError(result'[c]))
                 => response_cache' = response_cache]_vars
    /\ [][response_cache' # response_cache =>
             \E c \in Calls :
                 /\ pc[c] = "waiting" /\ pc'[c] = "done"
                 /\ future[c].state = "finished"
                 /\ ~HasError(result'[c])
                 /\ response_cache' =
                       _cache_response(response_cache,
                                       _generate_cache_key(args[c].question),
                                       result'[c], now)]_vars
    /\ [](\A key \in DOMAIN response_cache :
             ~HasError(response_cache[key].response))

C35_ErrorAndTimeoutStoreNothing ==
    \E c, d \in Calls :
        /\ pc[c] = "done"
        /\ ResultKind(result[c]) = "error"
        /\ TimedOut(d)
        /\ hist[d].started
        /\ _generate_cache_key(args[c].question) \notin DOMAIN response_cache
        /\ _generate_cache_key(args[d].question) \notin DOMAIN response_cache

\* C32: every document in the index carries the document-level metadata
\* that process_document gave its chunk, unchanged: the file name, and as
\* content_hash the hash over the full extracted text of its source document.
C32_IndexedHashIsDocumentHash ==
    \A i \in DOMAIN ingestion.vectorstore :
        LET doc  == ingestion.vectorstore[i]
            file == ingestion.file[ingestion.added_by[i]]
        IN  /\ doc.metadata.filename = file.filename
            /\ doc.metadata.content_hash = generate_content_hash(file.text)

\* The uploads whose ingestion failed after the duplicate check
FailedAfterCheck ==
    {u \in Uploads : ingestion.failure[u] \in {"chunking", "indexing"}}

\* C33: the hash of a document is in processed_hashes from the moment
\* is_duplicate has answered False, whatever happens to the upload afterwards,
\* and is never removed; so an upload that begins after an upload of the same
\* content has failed in chunking or in add_documents is reported as a
\* duplicate, gets no chunks, ends with status 500 and adds nothing to the
\* index.
C33_FailedIngestionStillMarksDuplicate ==
    /\ [](\A u \in Uploads :
             /\ ingestion.duplicate[u] = "no" =>
                   generate_content_hash(ingestion.file[u].text)
                       \in ingestion.processed_hashes
             /\ ingestion.duplicate[u] = "yes" =>
                   /\ ingestion.chunks[u] = <<>>
                   /\ \A i \in DOMAIN ingestion.added_by : ingestion.added_by[i] # u)
    /\ [][/\ ingestion.processed_hashes \subseteq ingestion'.processed_hashes
          /\ \A v \in Uploads :
                (/\ ingestion.pc[v] = "idle"
                 /\ ingestion'.pc[v] # "idle"
                 /\ validate_file(ingestion'.file[v])
                 /\ \E u \in FailedAfterCheck :
                       ingestion.file[u].text = ingestion'.file[v].text)
                    => /\ ingestion'.pc[v] = "done"
                       /\ ingestion'.duplicate[v] = "yes"
                       /\ ingestion'.status[v] = 500
                       /\ ingestion'.vectorstore = ingestion.vectorstore]_vars

C33_RetryAfterIndexFailureRejected ==
    \E u, v \in Uploads :
        /\ ingestion.failure[u] = "indexing"
        /\ ingestion.duplicate[v] = "yes"
        /\ ingestion.file[u].text = ingestion.file[v].text
        /\ ingestion.file[u].filename # ingestion.file[v].filename
        /\ ingestion.vectorstore = <<>>

\* C34: of the uploads of one content at most one is told by is_duplicate
\* that the content is new, so the index never holds documents that two
\* uploads of the same content added.
C34_OneUploadPerContentIngested ==
    \A u, v \in Uploads :
        (u # v /\ ingestion.duplicate[u] = "no" /\ ingestion.duplicate[v] = "no")
            => ingestion.file[u].text # ingestion.file[v].text

\* The requests of an address that were admitted with a request time in the
\* 60 seconds that end at time t
AdmittedInWindow(addr, t) ==
    {r \in Requests :
        /\ limiter.pc[r] = "done"
        /\ limiter.admitted[r]
        /\ limiter.remote_addr[r] = addr
        /\ limiter.current_time[r] > t - RateWindow
        /\ limiter.current_time[r] <= t}

\* C36: for every address and every 60-second window, the window that ends
\* at the time of any request included, at most limit_per_minute requests
\* of that address are admitted; and request_count holds the times of
\* admitted requests only.
C36_AtMostLimitPerWindow ==
    /\ \A addr \in Addresses, t \in 0..limiter.clock :
          Cardinality(AdmittedInWindow(addr, t)) <= limiter.limit_per_minute
    /\ \A addr \in DOMAIN limiter.request_count :
          \A i \in DOMAIN limiter.request_count[addr] :
              \E r \in Requests :
                  /\ limiter.pc[r] = "done"
                  /\ limiter.admitted[r]
                  /\ limiter.remote_addr[r] = addr
                  /\ limiter.current_time[r] = limiter.request_count[addr][i]

\* C37: of any two candidates of a search, the one at the larger distance
\* never gets the larger similarity, whichever branch of the conversion
\* each falls in, and never passes the threshold when the nearer one fails it.
C37_ConversionOrderPreserving ==
    (search_call.stage \in {"searched", "assembled"}) =>
        \A i, j \in DOMAIN search_call.similarities :
            SearchCandidates[i].score < SearchCandidates[j].score =>
                /\ search_call.similarities[i] >= search_call.similarities[j]
                /\ search_call.similarities[j] >= SearchAdjusted
                      => search_call.similarities[i] >= SearchAdjusted

====
